---- MODULE Spec2Model ----
(***************************************************************************)
(* Model of the vault-rag indexing and retrieval engine:                   *)
(*   - SqliteVectorStore (src/src/core/store/index.ts): three tables       *)
(*     (files, chunks, chunk_fts) written through SQLite transactions;     *)
(*   - VaultIndexer (src/src/core/metadata/frontmatter.ts, lines 82-205):  *)
(*     run() and persistFile();                                            *)
(*   - HybridRetriever (src/src/core/retrieval/index.ts).                  *)
(*                                                                         *)
(* A document is represented by the sequence of the content hashes of the  *)
(* chunks the chunker produces for it; a chunk's content and its           *)
(* contentHash (sha1 of the content) are the same token in the model; a    *)
(* chunkId (sha1 of path|headingPath|ordinal) is the pair <<path,          *)
(* ordinal>>.  An embedding is a token of the set Vectors.                 *)
(***************************************************************************)
EXTENDS Integers, Sequences, FiniteSets, TLC

(* ------------------------------ bounds --------------------------------- *)

Paths == {"a.md", "b.md"}

WalkOrder == <<"a.md", "b.md">>

Hashes == {"h1", "h2"}

Vectors == {"v1", "v2"}

MaxMtime == 2

None == "none"

(* the texts a file may hold, as sequences of chunk contents: an empty    *)
(* note, one chunk, two chunks, the first chunk of two edited              *)
TextsOf(p) ==
  IF p = "a.md" THEN {<<>>, <<"h1">>, <<"h1", "h1">>, <<"h2", "h1">>} ELSE {<<"h1">>}

MaxChunks == CHOOSE n \in 0..4 :
  /\ \A p \in Paths : \A t \in TextsOf(p) : Len(t) <= n
  /\ \E p \in Paths : \E t \in TextsOf(p) : Len(t) = n

Ordinals == 1..MaxChunks

ChunkIds == Paths \X Ordinals

(* ------------------------------ helpers -------------------------------- *)

SeqToSet(s) == {s[i] : i \in DOMAIN s}

SeqsUpTo(S, n) == UNION {[1..k -> S] : k \in 0..n}

RECURSIVE SetToSeqBy(_, _)
(* the members of set S in the order in which they occur in sequence ord *)
SetToSeqBy(S, ord) ==
  IF ord = <<>> THEN <<>>
  ELSE IF Head(ord) \in S THEN <<Head(ord)>> \o SetToSeqBy(S, Tail(ord))
       ELSE SetToSeqBy(S, Tail(ord))

Max(S) == CHOOSE x \in S : \A y \in S : y <= x

(* ------------------------------- store --------------------------------- *)
(* db = [chunks : chunk_id -> row, fts : <<chunk_id, content>> -> number   *)
(* of rows, files : path -> file state]; each is a function whose domain   *)
(* is the set of keys present in the table.                                *)

EmptyDb == [chunks |-> <<>>, fts |-> <<>>, files |-> <<>>]

Restrict(f, S) == [x \in S |-> f[x]]

Put(f, k, v) == [x \in (DOMAIN f) \cup {k} |-> IF x = k THEN v ELSE f[x]]

(* JSON.parse(JSON.stringify(embedding)): a vector with a component that   *)
(* is not finite comes back with null in its place                          *)
JsonRoundTrip(embedding) == IF embedding = "vNaN" THEN "vNull" ELSE embedding

(* INSERT INTO chunks ... ON CONFLICT(chunk_id) DO UPDATE SET ...: the     *)
(* update list names every column but chunk_id and file_path.              *)
InsertChunk(d, c) ==
  LET row == [filePath |-> IF c.chunkId \in DOMAIN d.chunks
                           THEN d.chunks[c.chunkId].filePath
                           ELSE c.filePath,
              contentHash |-> c.contentHash,
              mtime |-> c.mtime,
              embedding |-> JsonRoundTrip(c.embedding)]
  IN [d EXCEPT !.chunks = Put(d.chunks, c.chunkId, row)]

(* DELETE FROM chunk_fts WHERE chunk_id = ? *)
DeleteFts(d, id) ==
  [d EXCEPT !.fts = Restrict(d.fts, {k \in DOMAIN d.fts : k[1] # id})]

(* INSERT INTO chunk_fts(rowid, chunk_id, content) VALUES (NULL, ?, ?) *)
InsertFts(d, id, content) ==
  LET k == <<id, content>>
  IN [d EXCEPT !.fts = Put(d.fts, k, IF k \in DOMAIN d.fts THEN d.fts[k] + 1 ELSE 1)]

(* INSERT INTO files ... ON CONFLICT(path) DO UPDATE SET ... *)
UpdateFileState(d, path, st) == [d EXCEPT !.files = Put(d.files, path, st)]

(* DELETE FROM chunks WHERE chunk_id = ? *)
DeleteChunk(d, id) ==
  [d EXCEPT !.chunks = Restrict(d.chunks, (DOMAIN d.chunks) \ {id})]

(* DELETE FROM files WHERE path = ? *)
DeleteFileRow(d, path) ==
  [d EXCEPT !.files = Restrict(d.files, (DOMAIN d.files) \ {path})]

(* one SQL statement of a transaction body, applied to the working copy *)
ApplyStmt(d, s) ==
  CASE s.op = "insertChunk" -> InsertChunk(d, s.chunk)
    [] s.op = "deleteFts" -> DeleteFts(d, s.id)
    [] s.op = "insertFts" -> InsertFts(d, s.id, s.content)
    [] s.op = "updateFileState" -> UpdateFileState(d, s.path, s.state)
    [] s.op = "deleteChunk" -> DeleteChunk(d, s.id)

RECURSIVE RunStmts(_, _)
(* a transaction body run to its end *)
RunStmts(d, ss) ==
  IF ss = <<>> THEN d ELSE RunStmts(ApplyStmt(d, Head(ss)), Tail(ss))

RECURSIVE PathsInOrder(_)
(* keys of chunksByFile in insertion order *)
PathsInOrder(cs) ==
  IF cs = <<>> THEN <<>>
  ELSE LET rest == PathsInOrder(SubSeq(cs, 1, Len(cs) - 1))
           p == cs[Len(cs)].filePath
       IN IF p \in SeqToSet(rest) THEN rest ELSE Append(rest, p)

GroupOf(cs, path) == SelectSeq(cs, LAMBDA c : c.filePath = path)

FileStateOf(fileChunks) ==
  [mtime |-> Max({fileChunks[i].mtime : i \in DOMAIN fileChunks}),
   chunkCount |-> Len(fileChunks),
   contentHash |-> [i \in DOMAIN fileChunks |-> fileChunks[i].contentHash]]

RECURSIVE ChunkStmts(_)
ChunkStmts(cs) ==
  IF cs = <<>> THEN <<>>
  ELSE << [op |-> "insertChunk", chunk |-> Head(cs)],
          [op |-> "deleteFts", id |-> Head(cs).chunkId],
          [op |-> "insertFts", id |-> Head(cs).chunkId,
           content |-> Head(cs).contentHash] >> \o ChunkStmts(Tail(cs))

(* the statements of the transaction of upsertChunks(chunks) *)
UpsertStmts(cs) ==
  LET ps == PathsInOrder(cs)
  IN ChunkStmts(cs) \o
     [i \in DOMAIN ps |-> [op |-> "updateFileState", path |-> ps[i],
                           state |-> FileStateOf(GroupOf(cs, ps[i]))]]

RECURSIVE DeleteStmts(_)
(* the statements of the transaction of deleteChunksByIds(chunkIds) *)
DeleteStmts(ids) ==
  IF ids = <<>> THEN <<>>
  ELSE << [op |-> "deleteChunk", id |-> Head(ids)],
          [op |-> "deleteFts", id |-> Head(ids)] >> \o DeleteStmts(Tail(ids))

(* the transaction function is built but never invoked *)
upsertChunks_NotInvoked(d, cs) == d

upsertChunks(d, cs) == RunStmts(d, UpsertStmts(cs))

deleteChunksByIds(d, ids) == RunStmts(d, DeleteStmts(ids))

(* the order in which rows of the chunks table are returned *)
IdOrder == [i \in 1..(Len(WalkOrder) * MaxChunks) |->
              <<WalkOrder[((i - 1) \div MaxChunks) + 1], ((i - 1) % MaxChunks) + 1>>]

(* SELECT * FROM chunks WHERE file_path = ?, keyed by chunk_id *)
loadChunksByFile(d, path) ==
  Restrict(d.chunks, {id \in DOMAIN d.chunks : d.chunks[id].filePath = path})

loadFileStates(d) == d.files

(* the paths are read from the chunks table *)
listIndexedPaths_FromChunks(d) ==
  SetToSeqBy({d.chunks[id].filePath : id \in DOMAIN d.chunks}, WalkOrder)

(* SELECT path FROM files *)
listIndexedPaths(d) == SetToSeqBy(DOMAIN d.files, WalkOrder)

(* deleteChunksForFile deletes the files row and leaves the chunks *)
ChunkIdsOfFile_None(d, path) == <<>>

(* SELECT chunk_id FROM chunks WHERE file_path = ? (deleteChunksForFile) *)
ChunkIdsOfFile(d, path) == SetToSeqBy(DOMAIN loadChunksByFile(d, path), IdOrder)

(* ------------------------------ corpus --------------------------------- *)

NoFile == [exists |-> FALSE, mtime |-> 0, text |-> <<>>]

(* a.md is rewritten at any time up to MaxMtime; b.md is written once *)
DocsOf(p) ==
  [exists : {TRUE}, mtime : IF p = "a.md" THEN 1..MaxMtime ELSE {1}, text : TextsOf(p)]

(* chunkMarkdown: one chunk record per draft, ordinal = index + 1 *)
chunkMarkdown(path, doc) ==
  [i \in DOMAIN doc.text |->
     [chunkId |-> <<path, i>>, filePath |-> path,
      contentHash |-> doc.text[i], mtime |-> doc.mtime]]

(* iterVaultMarkdown: the files of the vault in directory order *)
iterVaultMarkdown(v) == SelectSeq(WalkOrder, LAMBDA p : v[p].exists)

(* ------------------------------ state ---------------------------------- *)

VARIABLES
  vault,       \* the corpus: path -> file (mtime, chunked text) or NoFile
  db,          \* the committed contents of the SQLite file
  tx,          \* the working copy of an open transaction
  txq,         \* the statements the open transaction has still to run
  after,       \* deleteChunksForFile: the path whose files row is deleted next
  call,        \* the store operation a client called last, and the number of
               \* chunks the store held for the path it names
  crashed,     \* "no", or how a crash cut the last store operation short
  pc,          \* position of run()
  fileStates,  \* run(): fileStates
  seen,        \* run(): seenPaths
  todo,        \* run(): the files the walk has still to yield
  stats,       \* run(): stats
  removed,     \* run(): removedPaths still to delete
  chunkCount,  \* run(): chunkCount of the path being removed
  cur,         \* persistFile(): relativePath
  chunks,      \* persistFile(): chunks
  existing,    \* persistFile(): existing
  toEmbed,     \* persistFile(): toEmbed
  nextChunks,  \* persistFile(): nextChunks
  sent,        \* the chunk ids of the payload handed to embedder.embed for cur
  persisted,   \* upsertChunks for cur has returned
  failedDoc,   \* the path for which the embedder threw or left a chunk out
  embedCalls,  \* number of embedder.embed calls made by the current run
  runFault,    \* the embedder left a chunk out during the current run
  lastRun,     \* how the last run ended, "none" once the corpus changed
  prev,        \* lastRun as it was when the current run started
  rin,         \* retrieval: the arguments and store contents of the call
  rout,        \* retrieval: the list the call returned
  rpc          \* retrieval: "ready" before the call, "done" after it

txVars == <<tx, txq, after, call, crashed>>

storeVars == <<db, tx, txq, after, call, crashed>>

runVars == <<pc, fileStates, seen, todo, stats, removed, chunkCount,
             embedCalls, runFault, lastRun, prev>>

fileVars == <<cur, chunks, existing, toEmbed, nextChunks, sent, persisted, failedDoc>>

vars == <<vault, db, tx, txq, after, call, crashed, pc, fileStates, seen, todo, stats, removed,
          chunkCount, cur, chunks, existing, toEmbed, nextChunks, sent, persisted,
          failedDoc, embedCalls, runFault, lastRun, prev, rin, rout, rpc>>

retrVars == <<rin, rout, rpc>>

NoTx == [open |-> FALSE, d |-> EmptyDb]

NoCall == [op |-> None, stored |-> 0]

ZeroStats == [processed |-> 0, skipped |-> 0, removed |-> 0,
              chunksUpserted |-> 0, chunksDeleted |-> 0]

IndexInit ==
  /\ vault = [p \in Paths |-> NoFile]
  /\ db = EmptyDb
  /\ tx = NoTx
  /\ txq = <<>>
  /\ after = None
  /\ call = NoCall
  /\ crashed = "no"
  /\ pc = "idle"
  /\ fileStates = <<>>
  /\ seen = {}
  /\ todo = <<>>
  /\ stats = ZeroStats
  /\ removed = <<>>
  /\ chunkCount = 0
  /\ cur = None
  /\ chunks = <<>>
  /\ existing = <<>>
  /\ toEmbed = <<>>
  /\ nextChunks = <<>>
  /\ sent = {}
  /\ persisted = FALSE
  /\ failedDoc = None
  /\ embedCalls = 0
  /\ runFault = FALSE
  /\ lastRun = "none"
  /\ prev = "none"

Init ==
  /\ IndexInit
  /\ rin = <<>>
  /\ rout = <<>>
  /\ rpc = "none"

Running == pc \in {"walk", "embed", "stale", "upsert", "reconcile", "unlink"}

ClearFile ==
  /\ cur' = None
  /\ chunks' = <<>>
  /\ existing' = <<>>
  /\ toEmbed' = <<>>
  /\ nextChunks' = <<>>
  /\ sent' = {}
  /\ persisted' = FALSE
  /\ failedDoc' = None

(* --------------------------- the environment --------------------------- *)

(* a file of the vault is created or rewritten while no run is under way *)
WriteFile ==
  /\ ~Running
  /\ \E p \in Paths : \E doc \in DocsOf(p) :
       /\ doc # vault[p]
       /\ vault' = [vault EXCEPT ![p] = doc]
  /\ lastRun' = "none"
  /\ UNCHANGED <<retrVars, storeVars, fileVars, pc, fileStates, seen, todo, stats, removed,
                 chunkCount, embedCalls, runFault, prev>>

(* a file of the vault is deleted while no run is under way *)
RemoveFile ==
  /\ ~Running
  /\ \E p \in Paths :
       /\ vault[p].exists
       /\ vault' = [vault EXCEPT ![p] = NoFile]
  /\ lastRun' = "none"
  /\ UNCHANGED <<retrVars, storeVars, fileVars, pc, fileStates, seen, todo, stats, removed,
                 chunkCount, embedCalls, runFault, prev>>

(* ------------------------------ indexer -------------------------------- *)

(* the diff looks at the chunkId alone and not at the contentHash *)
NeedsEmbedding_IdOnly(ex, c) == c.chunkId \notin DOMAIN ex

(* persistFile, lines 167-168: the chunk is reused unless this holds *)
NeedsEmbedding(ex, c) ==
  ~(c.chunkId \in DOMAIN ex /\ ex[c.chunkId].contentHash = c.contentHash)

(* persistFile, line 169: { ...chunk, embedding: prior.embedding } *)
WithEmbedding(c, e) ==
  [chunkId |-> c.chunkId, filePath |-> c.filePath,
   contentHash |-> c.contentHash, mtime |-> c.mtime, embedding |-> e]

Reused(ex, cs) ==
  LET keep == SelectSeq(cs, LAMBDA c : ~NeedsEmbedding(ex, c))
  IN [i \in DOMAIN keep |-> WithEmbedding(keep[i], ex[keep[i].chunkId].embedding)]

Queued(ex, cs) == SelectSeq(cs, LAMBDA c : NeedsEmbedding(ex, c))

(* persistFile, lines 190-192 *)
StaleChunkIds(ex, cs) ==
  SetToSeqBy({id \in DOMAIN ex : \A i \in DOMAIN cs : cs[i].chunkId # id}, IdOrder)

AfterEmbedding(ex, cs) == IF StaleChunkIds(ex, cs) # <<>> THEN "stale" ELSE "upsert"

(* run(), line 123: the file is skipped *)
Unchanged(states, file, mtime) ==
  file \in DOMAIN states /\ states[file].mtime = mtime

(* the filter keeps the paths that were seen *)
RemovedPaths_Inverted(d, seenPaths) ==
  SelectSeq(listIndexedPaths(d), LAMBDA p : p \in seenPaths)

(* run(), lines 146-148 *)
RemovedPaths(d, seenPaths) ==
  SelectSeq(listIndexedPaths(d), LAMBDA p : p \notin seenPaths)

(* run(), lines 108-117 *)
StartRun ==
  /\ ~Running
  /\ pc' = "walk"
  /\ fileStates' = loadFileStates(db)
  /\ seen' = {}
  /\ todo' = iterVaultMarkdown(vault)
  /\ stats' = ZeroStats
  /\ removed' = <<>>
  /\ chunkCount' = 0
  /\ embedCalls' = 0
  /\ runFault' = FALSE
  /\ prev' = lastRun
  /\ lastRun' = "none"
  /\ ClearFile
  /\ UNCHANGED <<retrVars, vault, storeVars>>

(* run(), lines 118-127: the walk yields a file whose mtime is the stored one *)
WalkSkip ==
  /\ pc = "walk"
  /\ todo # <<>>
  /\ Unchanged(fileStates, Head(todo), vault[Head(todo)].mtime)
  /\ seen' = seen \cup {Head(todo)}
  /\ todo' = Tail(todo)
  /\ stats' = [stats EXCEPT !.skipped = @ + 1]
  /\ ClearFile
  /\ UNCHANGED <<retrVars, vault, storeVars, pc, fileStates, removed, chunkCount,
                 embedCalls, runFault, lastRun, prev>>

(* run(), lines 118-138, and persistFile, lines 163-180: the walk yields a  *)
(* changed file; it is chunked and diffed, and the queued chunks are handed *)
(* to the embedder                                                          *)
WalkChanged ==
  /\ pc = "walk"
  /\ todo # <<>>
  /\ ~Unchanged(fileStates, Head(todo), vault[Head(todo)].mtime)
  /\ LET file == Head(todo)
         cs == chunkMarkdown(file, vault[file])
         ex == loadChunksByFile(db, file)
         te == Queued(ex, cs)
     IN /\ seen' = seen \cup {file}
        /\ todo' = Tail(todo)
        /\ cur' = file
        /\ chunks' = cs
        /\ existing' = ex
        /\ nextChunks' = Reused(ex, cs)
        /\ toEmbed' = te
        /\ sent' = IF te # <<>> THEN {te[i].chunkId : i \in DOMAIN te} ELSE {}
        /\ embedCalls' = IF te # <<>> THEN embedCalls + 1 ELSE embedCalls
        /\ pc' = IF te # <<>> THEN "embed" ELSE AfterEmbedding(ex, cs)
  /\ persisted' = FALSE
  /\ failedDoc' = None
  /\ UNCHANGED <<retrVars, vault, storeVars, fileStates, stats, removed, chunkCount,
                 runFault, lastRun, prev>>

(* persistFile, lines 181-188: the embedder returns; a chunk whose id is   *)
(* not in the result is passed over                                         *)
EmbedReturns ==
  /\ pc = "embed"
  /\ \E got \in SUBSET (DOMAIN toEmbed), v \in Vectors :
       LET have == SelectSeq([i \in DOMAIN toEmbed |-> i], LAMBDA i : i \in got)
       IN /\ nextChunks' = nextChunks \o
                 [j \in DOMAIN have |-> WithEmbedding(toEmbed[have[j]], v)]
          /\ runFault' = (runFault \/ got # DOMAIN toEmbed)
          /\ failedDoc' = IF got # DOMAIN toEmbed THEN cur ELSE failedDoc
  /\ pc' = AfterEmbedding(existing, chunks)
  /\ UNCHANGED <<retrVars, vault, storeVars, fileStates, seen, todo, stats, removed, chunkCount,
                 cur, chunks, existing, toEmbed, sent, persisted, embedCalls,
                 lastRun, prev>>

(* persistFile, line 175: embedder.embed rejects (retries exhausted); the   *)
(* exception leaves persistFile and run()                                   *)
EmbedThrows ==
  /\ pc = "embed"
  /\ pc' = "aborted"
  /\ failedDoc' = cur
  /\ UNCHANGED <<retrVars, vault, storeVars, fileStates, seen, todo, stats, removed, chunkCount,
                 cur, chunks, existing, toEmbed, nextChunks, sent, persisted,
                 embedCalls, runFault, lastRun, prev>>

(* persistFile, lines 193-195: deleteChunksByIds(staleChunkIds) *)
DeleteStale ==
  /\ pc = "stale"
  /\ db' = deleteChunksByIds(db, StaleChunkIds(existing, chunks))
  /\ pc' = "upsert"
  /\ UNCHANGED <<retrVars, vault, txVars, fileStates, seen, todo, stats, removed,
                 chunkCount, fileVars, embedCalls, runFault, lastRun, prev>>

(* persistFile, lines 196-203, and run(), lines 139-141 *)
Upsert ==
  /\ pc = "upsert"
  /\ db' = upsertChunks(db, nextChunks)
  /\ stats' = [stats EXCEPT !.processed = @ + 1,
                            !.chunksUpserted = @ + Len(chunks),
                            !.chunksDeleted = @ + Len(StaleChunkIds(existing, chunks))]
  /\ persisted' = TRUE
  /\ pc' = "walk"
  /\ UNCHANGED <<retrVars, vault, txVars, fileStates, seen, todo, removed, chunkCount,
                 cur, chunks, existing, toEmbed, nextChunks, sent, failedDoc,
                 embedCalls, runFault, lastRun, prev>>

(* run(), lines 146-148: the walk is over *)
WalkEnd ==
  /\ pc = "walk"
  /\ todo = <<>>
  /\ removed' = RemovedPaths(db, seen)
  /\ pc' = "reconcile"
  /\ UNCHANGED <<retrVars, vault, storeVars, fileStates, seen, todo, stats, chunkCount,
                 fileVars, embedCalls, runFault, lastRun, prev>>

(* run(), lines 149-151, and deleteChunksForFile, lines 208-211 *)
RemoveChunks ==
  /\ pc = "reconcile"
  /\ removed # <<>>
  /\ chunkCount' = Cardinality(DOMAIN loadChunksByFile(db, Head(removed)))
  /\ db' = deleteChunksByIds(db, ChunkIdsOfFile(db, Head(removed)))
  /\ pc' = "unlink"
  /\ UNCHANGED <<retrVars, vault, txVars, fileStates, seen, todo, stats, removed,
                 fileVars, embedCalls, runFault, lastRun, prev>>

(* deleteChunksForFile, line 212, and run(), lines 152-154 *)
RemoveFileRow ==
  /\ pc = "unlink"
  /\ db' = DeleteFileRow(db, Head(removed))
  /\ stats' = [stats EXCEPT !.removed = @ + 1, !.chunksDeleted = @ + chunkCount]
  /\ removed' = Tail(removed)
  /\ chunkCount' = 0
  /\ pc' = "reconcile"
  /\ UNCHANGED <<retrVars, vault, txVars, fileStates, seen, todo, fileVars,
                 embedCalls, runFault, lastRun, prev>>

(* run(), line 156: return stats *)
Finish ==
  /\ pc = "reconcile"
  /\ removed = <<>>
  /\ pc' = "done"
  /\ lastRun' = IF runFault THEN "faulty" ELSE "ok"
  /\ UNCHANGED <<retrVars, vault, storeVars, fileStates, seen, todo, stats, removed, chunkCount,
                 fileVars, embedCalls, runFault, prev>>

(* the process is killed between two store operations *)
Crash ==
  /\ Running
  /\ pc' = "idle"
  /\ fileStates' = <<>>
  /\ seen' = {}
  /\ todo' = <<>>
  /\ stats' = ZeroStats
  /\ removed' = <<>>
  /\ chunkCount' = 0
  /\ embedCalls' = 0
  /\ runFault' = FALSE
  /\ lastRun' = "none"
  /\ prev' = "none"
  /\ ClearFile
  /\ UNCHANGED <<retrVars, vault, storeVars>>

Next ==
  \/ WriteFile
  \/ RemoveFile
  \/ StartRun
  \/ WalkSkip
  \/ WalkChanged
  \/ EmbedReturns
  \/ EmbedThrows
  \/ DeleteStale
  \/ Upsert
  \/ WalkEnd
  \/ RemoveChunks
  \/ RemoveFileRow
  \/ Finish
  \/ Crash

Spec == Init /\ [][Next]_vars

(* ------------------- the store, statement by statement ------------------ *)
(* A client calls upsertChunks, deleteChunksByIds and deleteChunksForFile   *)
(* in any order.  database.transaction(fn)() runs the statements of fn on a *)
(* working copy and commits them together; a crash ends the process at any  *)
(* statement.                                                               *)

MaxBatch == 2

StoreChunk(id, path, hash) ==
  [chunkId |-> id, filePath |-> path, contentHash |-> hash, mtime |-> 1,
   embedding |-> "v1"]

(* the chunks a client passes: two versions of one chunk, a chunk of        *)
(* another file, and a chunk that reuses a chunkId under another path       *)
StoreArgs ==
  { StoreChunk(<<"a.md", 1>>, "a.md", "h1"),
    StoreChunk(<<"a.md", 1>>, "a.md", "h2"),
    StoreChunk(<<"b.md", 1>>, "b.md", "h1"),
    StoreChunk(<<"a.md", 1>>, "b.md", "h1") }

StoreIds == {<<"a.md", 1>>, <<"b.md", 1>>}

FtsRowsOf(d, id) == {k \in DOMAIN d.fts : k[1] = id}

(* the two tables of d name the same chunks, one lexical row for each *)
LexicalIndexMatchesChunks(d) ==
  /\ \A k \in DOMAIN d.fts : k[1] \in DOMAIN d.chunks
  /\ \A id \in DOMAIN d.chunks :
       /\ Cardinality(FtsRowsOf(d, id)) = 1
       /\ \A k \in FtsRowsOf(d, id) : d.fts[k] = 1

(* the statements ran outside a transaction: a crash keeps what was written *)
AfterCrash_NoTransaction(committed, working) == working

(* database.transaction: what is on disk after a crash inside fn *)
AfterCrash(committed, working) == committed

StoreIdle == pc = "idle" /\ ~tx.open /\ after = None

indexerVars == <<vault, pc, fileStates, seen, todo, stats, removed, chunkCount,
                 fileVars, embedCalls, runFault, lastRun, prev>>

(* upsertChunks(chunks), lines 116-162: the transaction begins *)
CallUpsertChunks ==
  /\ StoreIdle
  /\ \E cs \in SeqsUpTo(StoreArgs, MaxBatch) : txq' = UpsertStmts(cs)
  /\ tx' = [open |-> TRUE, d |-> db]
  /\ call' = [op |-> "upsertChunks", stored |-> 0]
  /\ crashed' = "no"
  /\ UNCHANGED <<db, after, indexerVars, retrVars>>

(* deleteChunksByIds(chunkIds), lines 192-199: the transaction begins *)
CallDeleteChunksByIds ==
  /\ StoreIdle
  /\ \E ids \in SeqsUpTo(StoreIds, MaxBatch) : txq' = DeleteStmts(ids)
  /\ tx' = [open |-> TRUE, d |-> db]
  /\ call' = [op |-> "deleteChunksByIds", stored |-> 0]
  /\ crashed' = "no"
  /\ UNCHANGED <<db, after, indexerVars, retrVars>>

(* deleteChunksForFile(filePath), lines 207-211 *)
CallDeleteChunksForFile ==
  /\ StoreIdle
  /\ \E path \in Paths :
       /\ txq' = DeleteStmts(ChunkIdsOfFile(db, path))
       /\ after' = path
       /\ call' = [op |-> "deleteChunksForFile",
                   stored |-> Len(ChunkIdsOfFile(db, path))]
  /\ tx' = [open |-> TRUE, d |-> db]
  /\ crashed' = "no"
  /\ UNCHANGED <<db, indexerVars, retrVars>>

(* one statement of the transaction body *)
TxStep ==
  /\ tx.open
  /\ txq # <<>>
  /\ tx' = [tx EXCEPT !.d = ApplyStmt(@, Head(txq))]
  /\ txq' = Tail(txq)
  /\ UNCHANGED <<db, after, call, crashed, indexerVars, retrVars>>

(* the transaction body has returned: COMMIT *)
TxCommit ==
  /\ tx.open
  /\ txq = <<>>
  /\ db' = tx.d
  /\ tx' = NoTx
  /\ UNCHANGED <<txq, after, call, crashed, indexerVars, retrVars>>

(* deleteChunksForFile, line 212: DELETE FROM files, on its own *)
DeleteFilesRow ==
  /\ ~tx.open
  /\ after # None
  /\ db' = DeleteFileRow(db, after)
  /\ after' = None
  /\ UNCHANGED <<tx, txq, call, crashed, indexerVars, retrVars>>

(* the process dies inside a store operation *)
StoreCrash ==
  /\ tx.open \/ after # None
  /\ db' = IF tx.open THEN AfterCrash(db, tx.d) ELSE db
  /\ tx' = NoTx
  /\ txq' = <<>>
  /\ after' = None
  /\ crashed' = IF tx.open /\ ~LexicalIndexMatchesChunks(tx.d) THEN "torn" ELSE "whole"
  /\ UNCHANGED <<call, indexerVars, retrVars>>

StoreNext ==
  \/ CallUpsertChunks
  \/ CallDeleteChunksByIds
  \/ CallDeleteChunksForFile
  \/ TxStep
  \/ TxCommit
  \/ DeleteFilesRow
  \/ StoreCrash

SpecStore == Init /\ [][StoreNext]_vars

(* ------------------------------ retriever ------------------------------ *)
(* Scores are rationals kept as integers: a fusion weight and lambda in     *)
(* tenths, an embedding component in tenths (a dot product in hundredths),  *)
(* a rank contribution weight/(1+r) as weight * (RankScale \div (1+r)).     *)

VectorTopK == 2

LexicalTopK == 2

RerankTopN == 2

DiversificationPool == 3

MaxList == 3

PerFileCap == 2

FusionVectorTenths == 7

FusionLexicalTenths == 3

MmrLambdaTenths == 5

RecencyBoostHundredths == 10

(* a common multiple of every 1 + rank that occurs *)
RankScale ==
  CHOOSE n \in 1..2520 : \A k \in 1..(MaxList + VectorTopK + LexicalTopK) : n % k = 0

RECURSIVE InsertDesc(_, _)
InsertDesc(sorted, e) ==
  IF sorted = <<>> THEN <<e>>
  ELSE IF Head(sorted).score >= e.score
       THEN <<Head(sorted)>> \o InsertDesc(Tail(sorted), e)
       ELSE <<e>> \o sorted

RECURSIVE SortDescFirst(_, _)
SortDescFirst(s, n) ==
  IF n = 0 THEN <<>> ELSE InsertDesc(SortDescFirst(s, n - 1), s[n])

(* the comparator is a.score - b.score: lowest score first *)
SortByScoreDesc_Ascending(s) ==
  LET d == SortDescFirst(s, Len(s)) IN [i \in DOMAIN d |-> d[Len(d) + 1 - i]]

(* Array.prototype.sort((a, b) => b.score - a.score): stable, descending *)
SortByScoreDesc(s) == SortDescFirst(s, Len(s))

Take(s, n) == SubSeq(s, 1, IF n < Len(s) THEN n ELSE Len(s))

StartsWith(str, prefix) ==
  Len(prefix) <= Len(str) /\ SubSeq(str, 1, Len(prefix)) = prefix

(* matchesFilters of the retriever; a field that is absent and a field     *)
(* that is empty take the same branch                                       *)
matchesFilters(chunk, filters) ==
  IF filters.pathPrefix # <<>> /\ ~StartsWith(chunk.filePath, filters.pathPrefix)
  THEN FALSE
  ELSE IF filters.tags # {} /\ ~(\E tag \in filters.tags : tag \in chunk.tags)
  THEN FALSE
  ELSE IF filters.chunkTypes # {} /\ chunk.chunkType \notin filters.chunkTypes
  THEN FALSE
  ELSE TRUE

(* the store's filter leaves the tags out *)
storeMatchesFilters_NoTags(chunk, filters) ==
  IF filters.pathPrefix # <<>> /\ ~StartsWith(chunk.filePath, filters.pathPrefix)
  THEN FALSE
  ELSE IF filters.chunkTypes # {} /\ chunk.chunkType \notin filters.chunkTypes
  THEN FALSE
  ELSE TRUE

(* matchesFilters of the store *)
storeMatchesFilters(chunk, filters) ==
  IF filters.pathPrefix # <<>> /\ ~StartsWith(chunk.filePath, filters.pathPrefix)
  THEN FALSE
  ELSE IF filters.tags # {} /\ ~(\E tag \in filters.tags : tag \in chunk.tags)
  THEN FALSE
  ELSE IF filters.chunkTypes # {} /\ chunk.chunkType \notin filters.chunkTypes
  THEN FALSE
  ELSE TRUE

(* dot, in hundredths *)
dot(left, right) ==
  LET n == IF Len(left) < Len(right) THEN Len(left) ELSE Len(right)
      RECURSIVE Sum(_)
      Sum(i) == IF i = 0 THEN 0 ELSE Sum(i - 1) + left[i] * right[i]
  IN Sum(n)

(* recencyBoost, in two-hundredths; ageDays is a whole number of days *)
recencyBoost(ageDays, weight) ==
  IF weight <= 0 THEN 0
  ELSE IF ageDays <= 0 THEN 2 * weight
  ELSE (2 * weight) \div (1 + ageDays)

(* scoreVectorCandidates; scores in two-hundredths *)
scoreVectorCandidates(allChunks, queryEmbedding, limit, filters) ==
  LET filtered == IF filters.given
                  THEN SelectSeq(allChunks, LAMBDA c : matchesFilters(c, filters))
                  ELSE allChunks
      scored == [i \in DOMAIN filtered |->
                   [chunk |-> filtered[i],
                    score |-> 2 * dot(filtered[i].embedding, queryEmbedding)
                              + recencyBoost(filtered[i].ageDays, RecencyBoostHundredths)]]
  IN Take(SortByScoreDesc(scored), limit)

(* lexicalSearch, lines 230-259: matches are the chunk ids the full-text    *)
(* query matches, best first; the score 1 / (score + 1) is not modelled     *)
lexicalSearch(allChunks, matches, limit, filters) ==
  LET rows == Take(matches, limit)
      found == SelectSeq(rows, LAMBDA id :
                 \E i \in DOMAIN allChunks :
                   /\ allChunks[i].chunkId = id
                   /\ (filters.given => storeMatchesFilters(allChunks[i], filters)))
  IN [j \in DOMAIN found |->
        [chunk |-> (CHOOSE c \in SeqToSet(allChunks) : c.chunkId = found[j]),
         score |-> 0]]

RECURSIVE Distinct(_)
(* the keys of a Map in insertion order *)
Distinct(ids) ==
  IF ids = <<>> THEN <<>>
  ELSE LET rest == Distinct(SubSeq(ids, 1, Len(ids) - 1))
       IN IF ids[Len(ids)] \in SeqToSet(rest) THEN rest ELSE Append(rest, ids[Len(ids)])

RECURSIVE RankSum(_, _, _, _)
(* the contributions weight / (1 + index) of the entries of list with id *)
RankSum(list, id, weight, n) ==
  IF n = 0 THEN 0
  ELSE RankSum(list, id, weight, n - 1)
       + (IF list[n].chunk.chunkId = id THEN weight * (RankScale \div n) ELSE 0)

(* the lexical loop takes weights.vector *)
fuseCandidates_VectorWeightTwice(vectorScores, lexicalScores, weights) ==
  LET all == vectorScores \o lexicalScores
      ids == Distinct([i \in DOMAIN all |-> all[i].chunk.chunkId])
      entry(id) ==
        [chunk |-> all[CHOOSE i \in DOMAIN all :
                         /\ all[i].chunk.chunkId = id
                         /\ \A j \in DOMAIN all : all[j].chunk.chunkId = id => j <= i].chunk,
         score |-> RankSum(vectorScores, id, weights.vector, Len(vectorScores))
                   + RankSum(lexicalScores, id, weights.vector, Len(lexicalScores))]
  IN SortByScoreDesc([i \in DOMAIN ids |-> entry(ids[i])])

(* fuseCandidates; scores in 1 / (10 * RankScale) *)
fuseCandidates(vectorScores, lexicalScores, weights) ==
  LET all == vectorScores \o lexicalScores
      ids == Distinct([i \in DOMAIN all |-> all[i].chunk.chunkId])
      entry(id) ==
        [chunk |-> all[CHOOSE i \in DOMAIN all :
                         /\ all[i].chunk.chunkId = id
                         /\ \A j \in DOMAIN all : all[j].chunk.chunkId = id => j <= i].chunk,
         score |-> RankSum(vectorScores, id, weights.vector, Len(vectorScores))
                   + RankSum(lexicalScores, id, weights.lexical, Len(lexicalScores))]
  IN SortByScoreDesc([i \in DOMAIN ids |-> entry(ids[i])])

RECURSIVE DedupeFrom(_, _, _)
DedupeFrom(entries, n, cap) ==
  IF n = 0 THEN <<>>
  ELSE LET before == DedupeFrom(entries, n - 1, cap)
           count == Cardinality({i \in DOMAIN before :
                                   before[i].chunk.filePath = entries[n].chunk.filePath})
       IN IF count >= cap THEN before ELSE Append(before, entries[n])

(* the test is count > 2 *)
dedupeFused_OffByOne(entries) == DedupeFrom(entries, Len(entries), PerFileCap + 1)

(* dedupeFused *)
dedupeFused(entries) == DedupeFrom(entries, Len(entries), PerFileCap)

(* the diversity term is added instead of subtracted *)
MmrScore_PlusDiversity(candidate, selected, lambda) ==
  LET sims == {dot(selected[i].chunk.embedding, candidate.chunk.embedding) :
                 i \in DOMAIN selected}
      diversity == IF selected = <<>> THEN 0 ELSE Max(sims)
  IN lambda * candidate.score * 100 + (10 - lambda) * diversity * 10 * RankScale

(* applyMmr, lines 25-37: lambda * relevance - (1 - lambda) * diversity,    *)
(* times 10000 * RankScale                                                  *)
MmrScore(candidate, selected, lambda) ==
  LET sims == {dot(selected[i].chunk.embedding, candidate.chunk.embedding) :
                 i \in DOMAIN selected}
      diversity == IF selected = <<>> THEN 0 ELSE Max(sims)
  IN lambda * candidate.score * 100 - (10 - lambda) * diversity * 10 * RankScale

(* the scan keeps the last of the candidates that score best *)
RECURSIVE MmrLoop_LastWins(_, _, _, _)
MmrLoop_LastWins(selected, remaining, topN, lambda) ==
  IF ~(Len(selected) < topN /\ Len(remaining) > 0) THEN selected
  ELSE LET bestIndex ==
             CHOOSE i \in DOMAIN remaining :
               /\ \A j \in DOMAIN remaining :
                    MmrScore(remaining[j], selected, lambda)
                      <= MmrScore(remaining[i], selected, lambda)
               /\ \A j \in (i + 1)..Len(remaining) :
                    MmrScore(remaining[j], selected, lambda)
                      < MmrScore(remaining[i], selected, lambda)
       IN MmrLoop_LastWins(Append(selected, remaining[bestIndex]),
                           SubSeq(remaining, 1, bestIndex - 1)
                             \o SubSeq(remaining, bestIndex + 1, Len(remaining)),
                           topN, lambda)

(* applyMmr, lines 19-45: the while loop; the scan replaces the best        *)
(* candidate only on a strictly larger score                                *)
RECURSIVE MmrLoop(_, _, _, _)
MmrLoop(selected, remaining, topN, lambda) ==
  IF ~(Len(selected) < topN /\ Len(remaining) > 0) THEN selected
  ELSE LET bestIndex ==
             CHOOSE i \in DOMAIN remaining :
               /\ \A j \in DOMAIN remaining :
                    MmrScore(remaining[j], selected, lambda)
                      <= MmrScore(remaining[i], selected, lambda)
               /\ \A j \in 1..(i - 1) :
                    MmrScore(remaining[j], selected, lambda)
                      < MmrScore(remaining[i], selected, lambda)
       IN MmrLoop(Append(selected, remaining[bestIndex]),
                  SubSeq(remaining, 1, bestIndex - 1)
                    \o SubSeq(remaining, bestIndex + 1, Len(remaining)),
                  topN, lambda)

(* applyMmr *)
applyMmr(candidates, topN, lambda) ==
  IF Len(candidates) <= topN THEN candidates
  ELSE MmrLoop(<<>>, candidates, topN, lambda)

(* OllamaReranker.rerank, lines 27 and 49-61; orderedIds is what            *)
(* safeParseIds makes of the model's response                               *)
rerank(candidates, orderedIds) ==
  IF Len(candidates) <= 1 THEN candidates
  ELSE IF orderedIds = <<>> THEN candidates
  ELSE LET named == SelectSeq(orderedIds, LAMBDA id :
                      \E i \in DOMAIN candidates : candidates[i].chunk.chunkId = id)
           byId(id) == candidates[CHOOSE i \in DOMAIN candidates :
                         /\ candidates[i].chunk.chunkId = id
                         /\ \A j \in DOMAIN candidates :
                              candidates[j].chunk.chunkId = id => j <= i]
       IN [j \in DOMAIN named |-> byId(named[j])]
          \o SelectSeq(candidates, LAMBDA e : e.chunk.chunkId \notin SeqToSet(orderedIds))

(* HybridRetriever.retrieve *)
retrieve(in, orderedIds) ==
  LET vectorCandidates ==
        scoreVectorCandidates(in.chunks, in.query, VectorTopK, in.filters)
      lexicalCandidates ==
        IF in.hybrid THEN lexicalSearch(in.chunks, in.matches, LexicalTopK, in.filters)
        ELSE <<>>
      fused == fuseCandidates(vectorCandidates, lexicalCandidates,
                 [vector |-> FusionVectorTenths, lexical |-> FusionLexicalTenths])
      deduped == dedupeFused(fused)
      diversified ==
        IF in.mmr /\ Len(deduped) > in.rerank_top_n
        THEN applyMmr(Take(deduped, in.diversification_pool), in.rerank_top_n,
                      MmrLambdaTenths)
        ELSE Take(deduped, in.rerank_top_n)
  IN IF in.reranking THEN rerank(diversified, orderedIds) ELSE diversified

(* sequences over S without repetition, of length at most n *)
NoDupSeqs(S, n) ==
  {q \in SeqsUpTo(S, n) : \A i, j \in DOMAIN q : i # j => q[i] # q[j]}

RChunk(id, path, tags, type, emb, age) ==
  [chunkId |-> id, filePath |-> path, tags |-> tags, chunkType |-> type,
   embedding |-> emb, ageDays |-> age]

(* the rows of the chunks table, in table order: three chunks of one note  *)
(* and one of another; a file path is a sequence of characters              *)
Catalog ==
  << RChunk("c1", <<"n", "a">>, {"t1"}, "text", <<10, 0>>, 0),
     RChunk("c2", <<"n", "a">>, {}, "code", <<9, 0>>, 1),
     RChunk("c3", <<"n", "a">>, {"t2"}, "text", <<0, 10>>, 1),
     RChunk("c4", <<"m">>, {"t1", "t2"}, "code", <<0, 10>>, 0) >>

CatalogIds == {Catalog[i].chunkId : i \in DOMAIN Catalog}

NoFilters == [given |-> FALSE, pathPrefix |-> <<>>, tags |-> {}, chunkTypes |-> {}]

FilterSets ==
  {NoFilters} \cup
  [given : {TRUE}, pathPrefix : {<<>>, <<"n">>}, tags : {{}, {"t1"}},
   chunkTypes : {{}, {"code"}}]

(* a store, a question and its embedding, filters and feature flags *)
RetrieveInputs ==
  { [chunks |-> SelectSeq(Catalog, LAMBDA c : c.chunkId \in stored),
     query |-> q, matches |-> m, filters |-> f,
     hybrid |-> h, mmr |-> d, reranking |-> FALSE,
     rerank_top_n |-> RerankTopN, diversification_pool |-> DiversificationPool] :
      stored \in {CatalogIds, CatalogIds \ {"c2"}, {"c1", "c4"}},
      q \in {<<10, 0>>, <<0, 10>>},
      m \in NoDupSeqs(CatalogIds, MaxList),
      f \in FilterSets, h \in BOOLEAN, d \in BOOLEAN }

InitRetrieve ==
  /\ IndexInit
  /\ rin \in {in \in RetrieveInputs : SeqToSet(in.matches) \subseteq
                                        {in.chunks[i].chunkId : i \in DOMAIN in.chunks}}
  /\ rout = <<>>
  /\ rpc = "ready"

(* retrieve() without a re-ranker *)
Retrieve ==
  /\ rpc = "ready"
  /\ rout' = retrieve(rin, <<>>)
  /\ rpc' = "done"
  /\ UNCHANGED <<rin, indexerVars, storeVars>>

(* retrieve() with the re-ranker, whose response names any ids *)
RetrieveReranked ==
  /\ rpc = "ready"
  /\ \E orderedIds \in SeqsUpTo(CatalogIds \cup {"zz"}, 2) :
       rout' = retrieve([rin EXCEPT !.reranking = TRUE], orderedIds)
  /\ rpc' = "done"
  /\ UNCHANGED <<rin, indexerVars, storeVars>>

RetrieveNext == Retrieve \/ RetrieveReranked

SpecRetrieve == InitRetrieve /\ [][RetrieveNext]_vars

(* the candidates handed to fuseCandidates: chunk ids in rank order *)
FuseIds == {"a", "b", "c", "d"}

FuseWeights == {0, 1, 3, 7}

Ranked(ids) == [i \in DOMAIN ids |-> [chunk |-> [chunkId |-> ids[i]], score |-> 0]]

InitFuse ==
  /\ IndexInit
  /\ rin \in [vector : NoDupSeqs(FuseIds, MaxList), lexical : NoDupSeqs(FuseIds, MaxList),
              weights : [vector : FuseWeights, lexical : FuseWeights]]
  /\ rout = <<>>
  /\ rpc = "ready"

Fuse ==
  /\ rpc = "ready"
  /\ rout' = fuseCandidates(Ranked(rin.vector), Ranked(rin.lexical), rin.weights)
  /\ rpc' = "done"
  /\ UNCHANGED <<rin, indexerVars, storeVars>>

SpecFuse == InitFuse /\ [][Fuse]_vars

(* ------------------------- claims on the indexer ----------------------- *)

IdsOf(cs) == {cs[i].chunkId : i \in DOMAIN cs}

(* the lexical-index rows of the chunks <<path, ordinal>> of a path *)
FtsOfPath(d, path) == {k \in DOMAIN d.fts : k[1][1] = path}

C2_EmbedsExactlyTheChangedChunks ==
  cur # None =>
    /\ pc = "embed" => existing = loadChunksByFile(db, cur)
    /\ sent = {id \in IdsOf(chunks) :
                 \/ id \notin DOMAIN existing
                 \/ \E i \in DOMAIN chunks :
                      /\ chunks[i].chunkId = id
                      /\ chunks[i].contentHash # existing[id].contentHash}
    /\ persisted =>
         \A i \in DOMAIN chunks :
           LET id == chunks[i].chunkId
           IN (id \in DOMAIN existing
               /\ existing[id].contentHash = chunks[i].contentHash) =>
                /\ id \notin sent
                /\ id \in DOMAIN db.chunks
                /\ db.chunks[id].embedding = existing[id].embedding
                /\ db.chunks[id].contentHash = chunks[i].contentHash
                /\ db.chunks[id].mtime = chunks[i].mtime

(* a document was written of which one chunk was embedded anew and another  *)
(* kept an embedding that differs from the new one                          *)
C2_Witness ==
  /\ cur # None
  /\ persisted
  /\ \E id \in sent, old \in IdsOf(chunks) \ sent :
       /\ id \in DOMAIN db.chunks
       /\ old \in DOMAIN existing
       /\ db.chunks[old].embedding # db.chunks[id].embedding
       /\ db.chunks[old].mtime # existing[old].mtime

(* C3: when a run has ended, a path that was tracked when it started and    *)
(* that the walk did not observe has no chunk, no lexical-index row and no  *)
(* document record; a tracked path the walk observed still has its record.  *)
C3_UnobservedDocumentsAreRemoved ==
  pc = "done" =>
    \A p \in DOMAIN fileStates :
      IF p \in seen
      THEN p \in DOMAIN db.files
      ELSE /\ loadChunksByFile(db, p) = <<>>
           /\ FtsOfPath(db, p) = {}
           /\ p \notin DOMAIN db.files

(* a run has ended that removed a document with chunks and kept another *)
C3_Witness ==
  /\ pc = "done"
  /\ stats.removed > 0
  /\ stats.chunksDeleted > 0
  /\ \E p \in DOMAIN fileStates : p \in seen
  /\ \E p \in DOMAIN fileStates : p \notin seen

(* C4: a run in which the embedder failed for a document ends by returning  *)
(* statistics that count the failure, with every document of the walk      *)
(* processed and every unobserved document removed.                         *)
C4_RunSurvivesAFailedDocument ==
  (pc \in {"done", "aborted"} /\ (runFault \/ failedDoc # None)) =>
    /\ pc = "done"
    /\ todo = <<>>
    /\ RemovedPaths(db, seen) = <<>>
    /\ "failed" \in DOMAIN stats

(* C5: while and after a document is updated for which the embedder threw   *)
(* or left a chunk out, the document's chunks, lexical-index rows and       *)
(* document record are what they were when the update began.                *)
C5_FailedUpdateLeavesTheDocument ==
  failedDoc # None =>
    /\ loadChunksByFile(db, failedDoc) = existing
    /\ FtsOfPath(db, failedDoc) =
         {<<id, existing[id].contentHash>> : id \in DOMAIN existing}
    /\ (failedDoc \in DOMAIN db.files) = (failedDoc \in DOMAIN fileStates)
    /\ failedDoc \in DOMAIN fileStates => db.files[failedDoc] = fileStates[failedDoc]

(* C8: at every moment of a document's update another connection reads,    *)
(* for that document, either the chunk set of before the update or the      *)
(* chunk set of after it.                                                   *)
C8_ReaderSeesOldOrNew ==
  (cur # None /\ pc \in {"embed", "stale", "upsert"}) =>
    LET view == loadChunksByFile(db, cur)
        final == loadChunksByFile(
                   upsertChunks(deleteChunksByIds(db, StaleChunkIds(existing, chunks)),
                                nextChunks), cur)
    IN view = existing \/ (pc = "upsert" /\ view = final)

(* -------------------------- claims on the store ------------------------ *)

(* C6: whatever calls were made and wherever a crash cut one short, the     *)
(* database holds a lexical-index row for a chunkId exactly if it holds a   *)
(* chunk with that chunkId, and then exactly one row.                       *)
C6_LexicalIndexMatchesChunks == LexicalIndexMatchesChunks(db)

(* a crash cut short a transaction whose working copy had a chunk without   *)
(* its lexical row or a lexical row without its chunk, with chunks stored   *)
C6_Witness ==
  /\ crashed = "torn"
  /\ db.chunks # <<>>
  /\ call.op \in {"upsertChunks", "deleteChunksByIds"}

(* C7: every stored chunk has a path that the files table tracks. *)
C7_NoChunkWithoutDocument ==
  \A id \in DOMAIN db.chunks : db.chunks[id].filePath \in DOMAIN db.files

(* deleteChunksForFile has returned for a document that had chunks, while  *)
(* chunks of another document stay stored                                   *)
C7_Witness ==
  /\ call.op = "deleteChunksForFile"
  /\ call.stored > 0
  /\ StoreIdle
  /\ crashed = "no"
  /\ db.chunks # <<>>
  /\ \E p \in Paths : p \notin DOMAIN db.files

(* ------------------------ claims on the retriever ----------------------- *)

(* the filter predicate, as the contract words it *)
SatisfiesFilters(chunk, filters) ==
  /\ filters.pathPrefix = <<>> \/ StartsWith(chunk.filePath, filters.pathPrefix)
  /\ filters.tags = {} \/ filters.tags \cap chunk.tags # {}
  /\ filters.chunkTypes = {} \/ chunk.chunkType \in filters.chunkTypes

LexicalRows == Take(rin.matches, LexicalTopK)

ChunkOfId(id) == CHOOSE c \in SeqToSet(rin.chunks) : c.chunkId = id

(* C9: whatever the store holds, whatever the query and the filters, every *)
(* chunk retrieve returns satisfies the filters (path starts with           *)
(* pathPrefix, one of the tags is present, chunkType is one of chunkTypes;  *)
(* an absent or empty field does not restrict), and the retriever's and the *)
(* store's predicates agree on every stored chunk.                          *)
C9_ResultsSatisfyTheFilters ==
  rpc = "done" /\ rin.filters.given =>
    /\ \A i \in DOMAIN rout : SatisfiesFilters(rout[i].chunk, rin.filters)
    /\ \A i \in DOMAIN rin.chunks :
         /\ matchesFilters(rin.chunks[i], rin.filters)
              = SatisfiesFilters(rin.chunks[i], rin.filters)
         /\ storeMatchesFilters(rin.chunks[i], rin.filters)
              = SatisfiesFilters(rin.chunks[i], rin.filters)

(* a hybrid retrieval under a restricting filter: the full-text rows hold a *)
(* chunk the filter excludes and one it admits, and the latter is returned  *)
C9_Witness ==
  /\ rpc = "done"
  /\ rin.filters.given
  /\ rin.hybrid
  /\ \E i \in DOMAIN LexicalRows :
       ~SatisfiesFilters(ChunkOfId(LexicalRows[i]), rin.filters)
  /\ \E i \in DOMAIN LexicalRows, j \in DOMAIN rout :
       rout[j].chunk.chunkId = LexicalRows[i]
  /\ \E i \in DOMAIN rin.chunks : ~SatisfiesFilters(rin.chunks[i], rin.filters)

(* weight / (1 + r) for the 0-based rank r of id in ids, 0 when absent *)
Contribution(ids, id, weight) ==
  IF \E r \in 0..(Len(ids) - 1) : ids[r + 1] = id
  THEN LET r == CHOOSE r \in 0..(Len(ids) - 1) : ids[r + 1] = id
       IN weight * (RankScale \div (1 + r))
  ELSE 0

(* C10: fuseCandidates returns exactly one entry for each distinct chunkId *)
(* of the two lists; its score is weights.vector / (1 + r) for its rank r   *)
(* in the vector list plus weights.lexical / (1 + r') for its rank r' in    *)
(* the lexical list, an absent list contributing 0; the entries are sorted  *)
(* by descending score.                                                     *)
C10_FusedScoresAndOrder ==
  rpc = "done" =>
    /\ {rout[i].chunk.chunkId : i \in DOMAIN rout}
         = SeqToSet(rin.vector) \cup SeqToSet(rin.lexical)
    /\ \A i, j \in DOMAIN rout : i # j => rout[i].chunk.chunkId # rout[j].chunk.chunkId
    /\ \A i \in DOMAIN rout :
         rout[i].score
           = Contribution(rin.vector, rout[i].chunk.chunkId, rin.weights.vector)
             + Contribution(rin.lexical, rout[i].chunk.chunkId, rin.weights.lexical)
    /\ \A i, j \in DOMAIN rout : i < j => rout[i].score >= rout[j].score

(* a chunk in both lists at different ranks, one in the lexical list only,  *)
(* both weights positive and different, and the lexical order overturned    *)
C10_Witness ==
  /\ rpc = "done"
  /\ rin.weights.vector > 0 /\ rin.weights.lexical > 0
  /\ rin.weights.vector # rin.weights.lexical
  /\ \E i \in DOMAIN rin.vector, j \in DOMAIN rin.lexical :
       rin.vector[i] = rin.lexical[j] /\ i # j
  /\ \E j \in DOMAIN rin.lexical : rin.lexical[j] \notin SeqToSet(rin.vector)
  /\ Len(rout) >= 2
  /\ rout[1].score > rout[2].score
  /\ rout[1].chunk.chunkId # rin.vector[1]

(* C11: with positive weights, the candidate that is first in the vector   *)
(* list and first in the lexical list stands, in the fused list, before     *)
(* every candidate that occurs in only one of the two lists.                *)
C11_FirstInBothBeatsSingleList ==
  (/\ rpc = "done"
   /\ rin.weights.vector > 0 /\ rin.weights.lexical > 0
   /\ rin.vector # <<>> /\ rin.lexical # <<>>
   /\ rin.vector[1] = rin.lexical[1]) =>
    \A i, j \in DOMAIN rout :
      (/\ rout[i].chunk.chunkId = rin.vector[1]
       /\ (rout[j].chunk.chunkId \in SeqToSet(rin.vector))
            # (rout[j].chunk.chunkId \in SeqToSet(rin.lexical))) => i < j

(* the same candidate heads both lists, a second candidate is in both, a    *)
(* third in the vector list only and a fourth in the lexical list only      *)
C11_Witness ==
  /\ rpc = "done"
  /\ rin.weights.vector > 0 /\ rin.weights.lexical > 0
  /\ rin.vector # <<>> /\ rin.lexical # <<>>
  /\ rin.vector[1] = rin.lexical[1]
  /\ \E id \in SeqToSet(rin.vector) \cap SeqToSet(rin.lexical) : id # rin.vector[1]
  /\ SeqToSet(rin.vector) \ SeqToSet(rin.lexical) # {}
  /\ SeqToSet(rin.lexical) \ SeqToSet(rin.vector) # {}
  /\ Len(rout) = 4

(* --------------------------- per-document cap --------------------------- *)
(* dedupeFused of the retriever and dedupeRankedChunks of the ask command.  *)

(* a ranked chunk's path and content hash; the hash "" is absent (falsy) *)
DedupeKinds == [filePath : {"p", "q"}, contentHash : {"", "x", "y"}]

(* options?.maxPerPath: absent, or a number *)
MaxPerPathOptions ==
  {[given |-> FALSE, value |-> 0]} \cup [given : {TRUE}, value : {0, 1, 2}]

(* the ranked list: the entry at rank i has chunkId i *)
DedupeEntries(kinds) ==
  [i \in DOMAIN kinds |->
     [chunk |-> [chunkId |-> i, filePath |-> kinds[i].filePath,
                 contentHash |-> kinds[i].contentHash],
      score |-> Len(kinds) - i]]

(* Math.max(options?.maxPerPath ?? 1, 1) *)
MaxPerPath(option) ==
  IF ~option.given THEN 1 ELSE IF option.value > 1 THEN option.value ELSE 1

RECURSIVE DedupeRankedFrom(_, _, _)
DedupeRankedFrom(entries, n, maxPerPath) ==
  IF n = 0 THEN <<>>
  ELSE LET output == DedupeRankedFrom(entries, n - 1, maxPerPath)
           entry == entries[n]
           hashKey == entry.chunk.contentHash
           seenHashes == {output[i].chunk.contentHash : i \in DOMAIN output} \ {""}
           count == Cardinality({i \in DOMAIN output :
                                   output[i].chunk.filePath = entry.chunk.filePath})
       IN IF hashKey # "" /\ hashKey \in seenHashes THEN output
          ELSE IF count >= maxPerPath THEN output
          ELSE Append(output, entry)

(* dedupeRankedChunks *)
dedupeRankedChunks(rankedChunks, option) ==
  DedupeRankedFrom(rankedChunks, Len(rankedChunks), MaxPerPath(option))

InitDedupe ==
  /\ IndexInit
  /\ rin \in [entries : {DedupeEntries(k) : k \in SeqsUpTo(DedupeKinds, MaxList)},
              maxPerPath : MaxPerPathOptions]
  /\ rout = <<>>
  /\ rpc = "ready"

(* the retriever caps the fused list *)
DedupeFused ==
  /\ rpc = "ready"
  /\ rout' = dedupeFused(rin.entries)
  /\ rpc' = "dedupeFused"
  /\ UNCHANGED <<rin, indexerVars, storeVars>>

(* the ask command caps the ranked list *)
DedupeRankedChunks ==
  /\ rpc = "ready"
  /\ rout' = dedupeRankedChunks(rin.entries, rin.maxPerPath)
  /\ rpc' = "dedupeRankedChunks"
  /\ UNCHANGED <<rin, indexerVars, storeVars>>

DedupeNext == DedupeFused \/ DedupeRankedChunks

SpecDedupe == InitDedupe /\ [][DedupeNext]_vars

(* the entries of list at the ranks in K, in rank order *)
AtRanks(list, K) == SelectSeq(list, LAMBDA e : e.chunk.chunkId \in K)

(* K holds a rank exactly if fewer than cap ranks of K before it have the   *)
(* same path (and, where hashes count, no rank of K before it the same hash)*)
KeptUnderCap(list, K, cap, byHash) ==
  \A i \in DOMAIN list :
    i \in K <=>
      /\ Cardinality({j \in K : j < i /\ list[j].chunk.filePath = list[i].chunk.filePath})
           < cap
      /\ byHash /\ list[i].chunk.contentHash # "" =>
           ~\E j \in K : j < i /\ list[j].chunk.contentHash = list[i].chunk.contentHash

AtMostPerPath(list, cap) ==
  \A i \in DOMAIN list :
    Cardinality({j \in DOMAIN list : list[j].chunk.filePath = list[i].chunk.filePath}) <= cap

MmrTopN == 2

Relevances == {0, 80, 90, 100}

Embeddings == {<<10, 0>>, <<9, 0>>, <<0, 10>>}

Lambdas == {0, 5, 10}

Hundredths(h) == h * (RankScale \div 10)

MmrCandidate(id, embedding, score) ==
  [chunk |-> [chunkId |-> id, embedding |-> embedding], score |-> score]

MmrPools ==
  {[i \in DOMAIN es |-> MmrCandidate(i, es[i], Hundredths(rs[i]))] :
     <<es, rs>> \in {x \in SeqsUpTo(Embeddings, MaxList) \X SeqsUpTo(Relevances, MaxList) :
                       /\ Len(x[1]) = Len(x[2])
                       /\ \A i, j \in DOMAIN x[2] : i < j => x[2][i] >= x[2][j]}}

(* documents A, B and C as the retriever ranks them for the query [1, 0],   *)
(* without lexical candidates: the fused scores of ranks 0, 1 and 2         *)
ExamplePool ==
  LET ranking == << MmrCandidate(1, <<10, 0>>, 0), MmrCandidate(2, <<9, 0>>, 0),
                    MmrCandidate(3, <<0, 10>>, 0) >>
  IN fuseCandidates(ranking, <<>>,
                    [vector |-> FusionVectorTenths, lexical |-> FusionLexicalTenths])

InitMmr ==
  /\ IndexInit
  /\ rin \in [pool : MmrPools, topN : 0..MmrTopN, lambda : Lambdas]
             \cup {[pool |-> ExamplePool, topN |-> 2, lambda |-> MmrLambdaTenths]}
  /\ rout = <<>>
  /\ rpc = "ready"

ApplyMmr ==
  /\ rpc = "ready"
  /\ rout' = applyMmr(rin.pool, rin.topN, rin.lambda)
  /\ rpc' = "done"
  /\ UNCHANGED <<rin, indexerVars, storeVars>>

SpecMmr == InitMmr /\ [][ApplyMmr]_vars

(* a pool of three, to be cut to two with lambda = 0.5: the first two are   *)
(* near-duplicates of each other (dot product at least 0.9) and the most    *)
(* relevant, the third is orthogonal to both and less relevant              *)
NearDuplicatesAndOutlier ==
  /\ rpc = "done"
  /\ Len(rin.pool) = 3 /\ rin.topN = 2 /\ rin.lambda = 5
  /\ dot(rin.pool[1].chunk.embedding, rin.pool[2].chunk.embedding) >= 90
  /\ dot(rin.pool[1].chunk.embedding, rin.pool[3].chunk.embedding) = 0
  /\ dot(rin.pool[2].chunk.embedding, rin.pool[3].chunk.embedding) = 0
  /\ rin.pool[1].score >= rin.pool[2].score
  /\ rin.pool[2].score > rin.pool[3].score

(* the relevance of the third exceeds the relevance of the second less the  *)
(* similarity of the second to the first *)
OutlierWithinReach ==
  rin.pool[3].score >
    rin.pool[2].score
      - Hundredths(dot(rin.pool[1].chunk.embedding, rin.pool[2].chunk.embedding))

RerankResponses ==
  {[array |-> FALSE, ids |-> <<>>]}
    \cup [array : {TRUE}, ids : SeqsUpTo(FuseIds \cup {"zz"}, 2)]

(* safeParseIds *)
safeParseIds(response) == IF response.array THEN response.ids ELSE <<>>

InitRerank ==
  /\ IndexInit
  /\ rin \in [candidates : {Ranked(ids) : ids \in NoDupSeqs(FuseIds, MaxList)},
              response : RerankResponses]
  /\ rout = <<>>
  /\ rpc = "ready"

(* OllamaReranker.rerank, the model having answered *)
Rerank ==
  /\ rpc = "ready"
  /\ rout' = rerank(rin.candidates, safeParseIds(rin.response))
  /\ rpc' = "done"
  /\ UNCHANGED <<rin, indexerVars, storeVars>>

SpecRerank == InitRerank /\ [][Rerank]_vars

(* the ranks of list whose chunkId the response lists / does not list *)
Listed(list, ids) == SelectSeq(list, LAMBDA e : e.chunk.chunkId \in SeqToSet(ids))

Unlisted(list, ids) == SelectSeq(list, LAMBDA e : e.chunk.chunkId \notin SeqToSet(ids))

(* C14: whatever the response, rerank returns every candidate exactly once: *)
(* first the candidates the response lists, in the order it lists them,     *)
(* then the others in their prior order; an id of no candidate is ignored   *)
(* and a response that is no array of ids leaves the order unchanged.       *)
C14_RerankIsAPermutation ==
  rpc = "done" =>
    LET ids == rin.response.ids
        n == Len(Listed(rin.candidates, ids))
    IN /\ Len(rout) = Len(rin.candidates)
       /\ \A c \in SeqToSet(rin.candidates) :
            Cardinality({i \in DOMAIN rout : rout[i] = c}) = 1
       /\ \A i, j \in 1..n :
            (i < j) =>
              \E k, l \in DOMAIN ids :
                k < l /\ ids[k] = rout[i].chunk.chunkId /\ ids[l] = rout[j].chunk.chunkId
       /\ SubSeq(rout, n + 1, Len(rout)) = Unlisted(rin.candidates, ids)
       /\ ~rin.response.array => rout = rin.candidates

(* ---------------------------- lexical search ---------------------------- *)
(* lexicalSearch from the query text on: a text is a sequence of            *)
(* characters, a word a sequence of letters.                                *)

MaxQuery == 4

Letters == {"a", "b"}

(* letters, white space, and punctuation that FTS5 reads as syntax *)
QueryChars == Letters \cup {" ", "*", "\""}

(* the letters of the keyword AND *)
WordChars == Letters \cup {"A", "N", "D"}

(* the chunks table and, per chunk, the words of its content *)
LexChunks ==
  << [chunkId |-> "c1", words |-> << <<"a">> >>],
     [chunkId |-> "c2", words |-> << <<"a">>, <<"b">> >>],
     [chunkId |-> "c3", words |-> << <<"b">>, <<"a", "b">> >>] >>

RECURSIVE TrimStart(_)
TrimStart(str) ==
  IF str # <<>> /\ Head(str) = " " THEN TrimStart(Tail(str)) ELSE str

RECURSIVE TrimEnd(_)
TrimEnd(str) ==
  IF str # <<>> /\ str[Len(str)] = " " THEN TrimEnd(SubSeq(str, 1, Len(str) - 1)) ELSE str

(* String.prototype.trim *)
Trim(str) == TrimEnd(TrimStart(str))

RECURSIVE RunLength(_, _)
(* the length of the longest prefix of str made of characters of set cs *)
RunLength(str, cs) ==
  IF str # <<>> /\ Head(str) \in cs THEN 1 + RunLength(Tail(str), cs) ELSE 0

RECURSIVE MatchAll(_, _)
(* input.match(/[A-Za-z0-9_]+/g) ?? []: the maximal runs of word characters *)
MatchAll(str, cs) ==
  IF str = <<>> THEN <<>>
  ELSE LET n == RunLength(str, cs)
       IN IF n = 0 THEN MatchAll(Tail(str), cs)
          ELSE <<SubSeq(str, 1, n)>> \o MatchAll(SubSeq(str, n + 1, Len(str)), cs)

RECURSIVE JoinAnd(_)
(* tokens.map((token) => `"${token}"`).join(" AND ") *)
JoinAnd(tokens) ==
  IF tokens = <<>> THEN <<>>
  ELSE LET quoted == <<"\"">> \o Head(tokens) \o <<"\"">>
       IN IF Len(tokens) = 1 THEN quoted
          ELSE quoted \o <<" ", "A", "N", "D", " ">> \o JoinAnd(Tail(tokens))

(* the query text is handed to MATCH as it is *)
toFtsQuery_Raw(input) == input

(* toFtsQuery *)
toFtsQuery(input) ==
  LET tokens == MatchAll(input, WordChars)
  IN IF tokens = <<>> THEN <<>> ELSE JoinAnd(tokens)

RECURSIVE FtsLex(_)
(* the lexemes of an FTS5 query: quoted strings, barewords, the keyword     *)
(* AND; any other character, or a quote that is not closed, is a syntax     *)
(* error                                                                    *)
FtsLex(str) ==
  IF str = <<>> THEN <<>>
  ELSE IF Head(str) = " " THEN FtsLex(Tail(str))
  ELSE IF Head(str) = "\"" THEN
    LET rest == Tail(str)
        n == RunLength(rest, (QueryChars \cup WordChars) \ {"\""})
    IN IF n = Len(rest) THEN <<[kind |-> "error"]>>
       ELSE <<[kind |-> "phrase", terms |-> MatchAll(SubSeq(rest, 1, n), WordChars)]>>
              \o FtsLex(SubSeq(rest, n + 2, Len(rest)))
  ELSE IF Head(str) \in WordChars THEN
    LET n == RunLength(str, WordChars)
        word == SubSeq(str, 1, n)
    IN <<IF word = <<"A", "N", "D">> THEN [kind |-> "and"]
         ELSE [kind |-> "phrase", terms |-> <<word>>]>>
         \o FtsLex(SubSeq(str, n + 1, Len(str)))
  ELSE <<[kind |-> "error"]>>

(* an FTS5 query is phrases joined by AND or by white space *)
FtsSyntaxError(lexemes) ==
  \/ lexemes = <<>>
  \/ \E i \in DOMAIN lexemes : lexemes[i].kind = "error"
  \/ lexemes[1].kind = "and"
  \/ lexemes[Len(lexemes)].kind = "and"
  \/ \E i \in 1..(Len(lexemes) - 1) : lexemes[i].kind = "and" /\ lexemes[i + 1].kind = "and"

(* the phrase's terms stand next to each other in the content; a phrase     *)
(* without terms matches nothing                                            *)
PhraseMatches(terms, words) ==
  /\ terms # <<>>
  /\ \E k \in 0..(Len(words) - Len(terms)) :
       \A i \in DOMAIN terms : words[k + i] = terms[i]

(* SELECT chunk_id ... FROM chunk_fts WHERE chunk_fts MATCH ?: the chunk    *)
(* ids of the matching rows, or the error SQLite raises                     *)
FtsMatch(ftsQuery) ==
  LET lexemes == FtsLex(ftsQuery)
  IN IF FtsSyntaxError(lexemes) THEN [error |-> TRUE, rows |-> <<>>]
     ELSE LET hit == SelectSeq(LexChunks, LAMBDA c :
                       \A i \in DOMAIN lexemes :
                         lexemes[i].kind = "phrase" =>
                           PhraseMatches(lexemes[i].terms, c.words))
          IN [error |-> FALSE, rows |-> [i \in DOMAIN hit |-> hit[i].chunkId]]

(* lexicalSearch, lines 227-244 and on: what the caller gets *)
lexicalSearchQuery(query, limit) ==
  IF Trim(query) = <<>> THEN [threw |-> FALSE, found |-> <<>>]
  ELSE LET ftsQuery == toFtsQuery(query)
       IN IF ftsQuery = <<>> THEN [threw |-> FALSE, found |-> <<>>]
          ELSE LET result == FtsMatch(ftsQuery)
               IN IF result.error THEN [threw |-> FALSE, found |-> <<>>]
                  ELSE [threw |-> FALSE,
                        found |-> lexicalSearch(LexChunks, result.rows, limit, NoFilters)]

InitLexical ==
  /\ IndexInit
  /\ rin \in [query : SeqsUpTo(QueryChars, MaxQuery), limit : 1..LexicalTopK]
  /\ rout = <<>>
  /\ rpc = "ready"

LexicalSearch ==
  /\ rpc = "ready"
  /\ rout' = lexicalSearchQuery(rin.query, rin.limit)
  /\ rpc' = "done"
  /\ UNCHANGED <<rin, indexerVars, storeVars>>

SpecLexical == InitLexical /\ [][LexicalSearch]_vars

(* the terms of a query: its runs of letters between characters that are    *)
(* not letters                                                              *)
TermsOf(query) ==
  {SubSeq(query, i, j) : <<i, j>> \in
     {x \in (DOMAIN query) \X (DOMAIN query) :
        /\ x[1] <= x[2]
        /\ \A k \in x[1]..x[2] : query[k] \in Letters
        /\ x[1] = 1 \/ query[x[1] - 1] \notin Letters
        /\ x[2] = Len(query) \/ query[x[2] + 1] \notin Letters}}

HasAllTerms(c, terms) == \A t \in terms : \E i \in DOMAIN c.words : c.words[i] = t

RoundTripArgs ==
  StoreArgs \cup {[StoreChunk(<<"b.md", 1>>, "b.md", "h2") EXCEPT !.embedding = "vNaN"]}

(* lists of chunks with distinct chunkIds *)
DistinctChunkLists ==
  {cs \in SeqsUpTo(RoundTripArgs, MaxBatch) :
     \A i, j \in DOMAIN cs : i # j => cs[i].chunkId # cs[j].chunkId}

InitRoundTrip ==
  /\ IndexInit
  /\ rin \in [before : DistinctChunkLists, chunks : DistinctChunkLists]
  /\ rout = <<>>
  /\ rpc = "ready"

(* an earlier call of upsertChunks *)
UpsertBefore ==
  /\ rpc = "ready"
  /\ db' = upsertChunks(db, rin.before)
  /\ rpc' = "stored"
  /\ UNCHANGED <<rin, rout, indexerVars, txVars>>

(* upsertChunks(chunks), then loadChunksByFile for every path *)
UpsertAndLoad ==
  /\ rpc = "stored"
  /\ db' = upsertChunks(db, rin.chunks)
  /\ rout' = [p \in Paths |-> loadChunksByFile(db', p)]
  /\ rpc' = "done"
  /\ UNCHANGED <<rin, indexerVars, txVars>>

RoundTripNext == UpsertBefore \/ UpsertAndLoad

SpecRoundTrip == InitRoundTrip /\ [][RoundTripNext]_vars

(* C16: after upsertChunks(chunks), chunks of distinct chunkIds,            *)
(* loadChunksByFile(path) holds every chunk written with that path under    *)
(* its chunkId, with the content, metadata and embedding that were written, *)
(* whether the chunkId was new or was stored before; beside these it holds  *)
(* only what it held before the call.                                       *)
C16_LoadReturnsWhatWasWritten ==
  rpc = "done" =>
    LET earlier == upsertChunks(EmptyDb, rin.before)
    IN /\ \A i \in DOMAIN rin.chunks :
            LET c == rin.chunks[i]
            IN /\ c.chunkId \in DOMAIN rout[c.filePath]
               /\ rout[c.filePath][c.chunkId] =
                    [filePath |-> c.filePath, contentHash |-> c.contentHash,
                     mtime |-> c.mtime, embedding |-> c.embedding]
       /\ \A p \in Paths : \A id \in DOMAIN rout[p] :
            \/ \E i \in DOMAIN rin.chunks :
                 rin.chunks[i].chunkId = id /\ rin.chunks[i].filePath = p
            \/ /\ id \in DOMAIN loadChunksByFile(earlier, p)
               /\ rout[p][id] = loadChunksByFile(earlier, p)[id]

(* --------------------------- generated blocks --------------------------- *)
(* stripAiBlocks, applied by chunkMarkdown to the markdown before           *)
(* parseFrontmatter. A document is a sequence of tokens: the two markers,   *)
(* the line break and characters of text. "<!-- AI:BEGIN -->" and           *)
(* "<!-- AI:END -->" hold no line break and no proper suffix of one is a    *)
(* prefix of one, so removals never build a marker out of its pieces.       *)

MaxDoc == 5

AI_BLOCK_START == "<!-- AI:BEGIN -->"

AI_BLOCK_END == "<!-- AI:END -->"

DocTokens == {AI_BLOCK_START, AI_BLOCK_END, "\n", "a", "g"}

(* every token with the position it has in the document; a token the        *)
(* function inserts has position 0                                          *)
Tagged(markdown) == [i \in DOMAIN markdown |-> [ch |-> markdown[i], at |-> i]]

Untagged(tokens) == [i \in DOMAIN tokens |-> tokens[i].ch]

(* input.includes(AI_BLOCK_START) *)
IncludesStart(input) == \E i \in DOMAIN input : input[i].ch = AI_BLOCK_START

(* the end marker that closes a block opened at i: the first one after i,   *)
(* 0 when there is none                                                     *)
BlockEnd(input, i) ==
  LET ends == {j \in (i + 1)..Len(input) : input[j].ch = AI_BLOCK_END}
  IN IF ends = {} THEN 0 ELSE CHOOSE j \in ends : \A k \in ends : j <= k

RECURSIVE ReplaceBlocks_SingleLine(_, _)
ReplaceBlocks_SingleLine(input, i) ==
  IF i > Len(input) THEN <<>>
  ELSE IF /\ input[i].ch = AI_BLOCK_START
          /\ BlockEnd(input, i) # 0
          /\ \A j \in i..BlockEnd(input, i) : input[j].ch # "\n"
       THEN <<[ch |-> "\n", at |-> 0]>> \o ReplaceBlocks_SingleLine(input, BlockEnd(input, i) + 1)
       ELSE <<input[i]>> \o ReplaceBlocks_SingleLine(input, i + 1)

(* input.replace(/<!-- AI:BEGIN -->([\s\S]*?)<!-- AI:END -->/g, "\n"), from *)
(* position i on: leftmost matches, each up to the first end marker         *)
RECURSIVE ReplaceBlocks(_, _)
ReplaceBlocks(input, i) ==
  IF i > Len(input) THEN <<>>
  ELSE IF input[i].ch = AI_BLOCK_START /\ BlockEnd(input, i) # 0
       THEN <<[ch |-> "\n", at |-> 0]>> \o ReplaceBlocks(input, BlockEnd(input, i) + 1)
       ELSE <<input[i]>> \o ReplaceBlocks(input, i + 1)

(* cleaned.replace(/\n{2,}/g, "\n") *)
CollapseNewlines(cleaned) ==
  SelectSeq([i \in DOMAIN cleaned |->
               [tok |-> cleaned[i],
                drop |-> i > 1 /\ cleaned[i].ch = "\n" /\ cleaned[i - 1].ch = "\n"]],
            LAMBDA e : ~e.drop)

RECURSIVE TrimTokens(_)
TrimTokens(tokens) ==
  IF tokens = <<>> THEN <<>>
  ELSE IF Head(tokens).ch = "\n" THEN TrimTokens(Tail(tokens))
  ELSE IF tokens[Len(tokens)].ch = "\n" THEN TrimTokens(SubSeq(tokens, 1, Len(tokens) - 1))
  ELSE tokens

stripAiBlocks(input) ==
  IF ~IncludesStart(input) THEN input
  ELSE LET collapsed == CollapseNewlines(ReplaceBlocks(input, 1))
       IN TrimTokens([i \in DOMAIN collapsed |-> collapsed[i].tok])

(* the lines of the sanitized text that are not empty: the text of every    *)
(* block, and so the content of every chunk, is made of these               *)
RECURSIVE LinesOf(_)
LinesOf(tokens) ==
  IF tokens = <<>> THEN {}
  ELSE LET breaks == {i \in DOMAIN tokens : tokens[i].ch = "\n"}
           n == IF breaks = {} THEN Len(tokens) + 1
                ELSE CHOOSE i \in breaks : \A k \in breaks : i <= k
           line == SubSeq(tokens, 1, n - 1)
           rest == IF n >= Len(tokens) THEN <<>> ELSE SubSeq(tokens, n + 1, Len(tokens))
       IN (IF line = <<>> THEN {} ELSE {line}) \cup LinesOf(rest)

InitStrip ==
  /\ IndexInit
  /\ rin \in SeqsUpTo(DocTokens, MaxDoc)
  /\ rout = <<>>
  /\ rpc = "ready"

(* chunkMarkdown up to the text of its blocks *)
StripAndParse ==
  /\ rpc = "ready"
  /\ rout' = [parsed |-> stripAiBlocks(Tagged(rin)),
              lines |-> LinesOf(stripAiBlocks(Tagged(rin)))]
  /\ rpc' = "parsed"
  /\ UNCHANGED <<rin, indexerVars, storeVars>>

SpecStrip == InitStrip /\ [][StripAndParse]_vars

(* position i lies in a block: at or after a begin marker and at or before  *)
(* the first end marker that follows it                                     *)
InBlock(markdown, i) ==
  \E b \in 1..i :
    /\ markdown[b] = AI_BLOCK_START
    /\ BlockEnd(Tagged(markdown), b) >= i

(* the positions of the document that some chunk text holds *)
KeptPositions == UNION {{l[i].at : i \in DOMAIN l} : l \in rout.lines} \ {0}

MaxOrdinal == 2

MaxHeadings == 2

(* relative paths of markdown files; "|" is a legal character of a file     *)
(* name                                                                     *)
FilePaths == {<<"a.md">>, <<"b.md">>, <<"a.md", "|", "b.md">>}

(* a note title or heading text, as trimmed by the parser *)
HeadingTexts == {<<"T">>, <<"U">>, <<"b.md", "|", "T">>, <<"T", ">", "U">>}

(* buildHeadingPath: the note title, then the headings above the chunk, a   *)
(* heading equal to the one before it left out                              *)
HeadingPaths ==
  {hp \in UNION {[1..k -> HeadingTexts] : k \in 1..MaxHeadings} :
     \A i \in 1..(Len(hp) - 1) : hp[i] # hp[i + 1]}

RECURSIVE Decimal(_)
Decimal(n) ==
  LET digit == <<"0", "1", "2", "3", "4", "5", "6", "7", "8", "9">>[(n % 10) + 1]
  IN IF n < 10 THEN <<digit>> ELSE Decimal(n \div 10) \o <<digit>>

(* headingPath.join(separator) *)
RECURSIVE Join(_, _)
Join(parts, separator) ==
  IF parts = <<>> THEN <<>>
  ELSE IF Len(parts) = 1 THEN parts[1]
  ELSE parts[1] \o <<separator>> \o Join(Tail(parts), separator)

(* createHash("sha1").update(input).digest("hex"): taken as free of         *)
(* collisions, so that two ids are equal only if the hashed strings are     *)
sha1(input) == <<"sha1", input>>

stableChunkId(filePath, headingPath, ordinal) ==
  sha1(filePath \o <<"|">> \o Join(headingPath, ">") \o <<"|">> \o Decimal(ordinal))

ChunkKeys == [filePath : FilePaths, headingPath : HeadingPaths, ordinal : 1..MaxOrdinal]

InitChunkId ==
  /\ IndexInit
  /\ rin \in [one : ChunkKeys, other : ChunkKeys]
  /\ rout = <<>>
  /\ rpc = "ready"

(* chunkMarkdown, line 63, for two chunks *)
StableChunkIds ==
  /\ rpc = "ready"
  /\ rout' = [one |-> stableChunkId(rin.one.filePath, rin.one.headingPath, rin.one.ordinal),
              other |-> stableChunkId(rin.other.filePath, rin.other.headingPath,
                                      rin.other.ordinal)]
  /\ rpc' = "hashed"
  /\ UNCHANGED <<rin, indexerVars, storeVars>>

SpecChunkId == InitChunkId /\ [][StableChunkIds]_vars

(* C18: two chunks with distinct (documentPath, headingPath, ordinal) have  *)
(* distinct chunkIds; so do two chunks of one document, which differ in     *)
(* their ordinal, and two chunks of different documents.                    *)
C18_DistinctTriplesDistinctIds ==
  rpc = "hashed" =>
    /\ rin.one # rin.other => rout.one # rout.other
    /\ rin.one.filePath # rin.other.filePath => rout.one # rout.other
    /\ (rin.one.filePath = rin.other.filePath /\ rin.one.ordinal # rin.other.ordinal)
         => rout.one # rout.other

(* ------------------------ documents that share ids ---------------------- *)
(* run() over a vault of two documents with an embedder that returns a      *)
(* vector for every payload. stableChunkId gives two documents the same ids *)
(* when the path of one, "|" and its title spell the path of the other,     *)
(* "|" and that one's title; here "b.md" stands for the document whose      *)
(* chunks then get the ids of the chunks of "a.md".                         *)

(* chunkMarkdown for a document whose ids are those stableChunkId gives     *)
(* for idPath                                                               *)
chunkMarkdownAs(path, idPath, doc) ==
  [i \in DOMAIN doc.text |->
     [chunkId |-> <<idPath, i>>, filePath |-> path,
      contentHash |-> doc.text[i], mtime |-> doc.mtime]]

(* persistFile with embedder.embed returning vector v for every payload *)
persistFile(d, relativePath, cs, v) ==
  LET ex == loadChunksByFile(d, relativePath)
      te == Queued(ex, cs)
      next == Reused(ex, cs) \o [i \in DOMAIN te |-> WithEmbedding(te[i], v)]
  IN upsertChunks(deleteChunksByIds(d, StaleChunkIds(ex, cs)), next)

SharedIdVaults ==
  [before : TextsOf("a.md"),
   a : TextsOf("a.md") \ {<<>>},
   b : {<<"h1">>, <<"h2">>},
   shared : BOOLEAN]

(* the chunks chunkMarkdown makes of the documents of the vault *)
ChunksOfVault(in, path) ==
  IF path = "a.md"
  THEN chunkMarkdownAs("a.md", "a.md", [mtime |-> 2, text |-> in.a])
  ELSE chunkMarkdownAs("b.md", IF in.shared THEN "a.md" ELSE "b.md",
                       [mtime |-> 1, text |-> in.b])

InitPersist ==
  /\ IndexInit
  /\ rin \in SharedIdVaults
  /\ rout = <<>>
  /\ rpc = "ready"

(* an earlier run indexed an earlier text of a.md *)
PersistEarlier ==
  /\ rpc = "ready"
  /\ \E v \in Vectors :
       db' = persistFile(db, "a.md",
                         chunkMarkdownAs("a.md", "a.md", [mtime |-> 1, text |-> rin.before]), v)
  /\ rpc' = "walk"
  /\ UNCHANGED <<rin, rout, indexerVars, txVars>>

(* run(): the walk yields the next document, changed or untracked *)
PersistNext ==
  /\ rpc = "walk"
  /\ Len(rout) < Len(WalkOrder)
  /\ \E v \in Vectors :
       db' = persistFile(db, WalkOrder[Len(rout) + 1],
                         ChunksOfVault(rin, WalkOrder[Len(rout) + 1]), v)
  /\ rout' = Append(rout, WalkOrder[Len(rout) + 1])
  /\ UNCHANGED <<rin, rpc, indexerVars, txVars>>

(* run(): the walk is over and no indexed path is missing from the vault *)
PersistDone ==
  /\ rpc = "walk"
  /\ Len(rout) = Len(WalkOrder)
  /\ rpc' = "done"
  /\ UNCHANGED <<rin, rout, db, indexerVars, txVars>>

PersistSteps == PersistEarlier \/ PersistNext \/ PersistDone

SpecPersist == InitPersist /\ [][PersistSteps]_vars

(* C19: after a run that completes with an embedder that returns a vector   *)
(* for every payload, the chunkIds stored for the path of every document    *)
(* the walk found changed or untracked are the chunkIds the chunker makes   *)
(* of its text, each with the chunker's contentHash.                        *)
C19_StoredIdsAreTheChunkersIds ==
  rpc = "done" =>
    \A path \in Paths :
      LET cs == ChunksOfVault(rin, path)
          stored == loadChunksByFile(db, path)
      IN /\ DOMAIN stored = {cs[i].chunkId : i \in DOMAIN cs}
         /\ \A i \in DOMAIN cs :
              cs[i].chunkId \in DOMAIN stored =>
                stored[cs[i].chunkId].contentHash = cs[i].contentHash

(* --------------------------- greedy selection --------------------------- *)

(* position in the pool of the k-th entry of the result *)
PoolIndex(k) == CHOOSE i \in DOMAIN rin.pool : rin.pool[i] = rout[k]

(* lambda * relevance - (1 - lambda) * (largest dot product with one of the *)
(* first k - 1 entries of the result, 0 if there is none), for the pool's   *)
(* i-th candidate, in units of 1 / (10000 * RankScale)                      *)
GreedyValue(i, k) ==
  LET dots == {dot(rout[m].chunk.embedding, rin.pool[i].chunk.embedding) : m \in 1..(k - 1)}
      largest == IF k = 1 THEN 0 ELSE Max(dots)
  IN rin.lambda * rin.pool[i].score * 100 - (10 - rin.lambda) * largest * 10 * RankScale

(* the candidates that remain when the k-th entry is chosen *)
RemainingAt(k) == {i \in DOMAIN rin.pool : \A m \in 1..(k - 1) : rin.pool[i] # rout[m]}

(* C20: from a pool of more than topN candidates applyMmr returns topN      *)
(* distinct members of the pool; the k-th is, among the candidates not yet  *)
(* chosen, the one with the largest lambda * relevance - (1 - lambda) *     *)
(* (largest dot product with a chosen one), the earliest of the pool if     *)
(* several have it. A pool of at most topN candidates is returned as it is. *)
C20_MmrIsGreedy ==
  rpc = "done" =>
    /\ Len(rin.pool) <= rin.topN => rout = rin.pool
    /\ Len(rin.pool) > rin.topN =>
         /\ Len(rout) = rin.topN
         /\ \A k \in DOMAIN rout : \E i \in DOMAIN rin.pool : rin.pool[i] = rout[k]
         /\ \A k, m \in DOMAIN rout : k # m => rout[k] # rout[m]
         /\ \A k \in DOMAIN rout :
              /\ PoolIndex(k) \in RemainingAt(k)
              /\ \A i \in RemainingAt(k) :
                   /\ GreedyValue(i, k) <= GreedyValue(PoolIndex(k), k)
                   /\ i < PoolIndex(k) => GreedyValue(i, k) < GreedyValue(PoolIndex(k), k)

(* with lambda = 0.5 the second entry was chosen among two candidates of    *)
(* different embeddings that tied for the largest value                     *)
C20_Witness ==
  /\ rpc = "done"
  /\ Len(rin.pool) = 3 /\ rin.topN = 2 /\ rin.lambda = 5
  /\ \E i \in RemainingAt(2) :
       /\ i > PoolIndex(2)
       /\ GreedyValue(i, 2) = GreedyValue(PoolIndex(2), 2)
       /\ rin.pool[i].chunk.embedding # rout[2].chunk.embedding

(* ------------------------------- chunker -------------------------------- *)
(* buildChunkDrafts and mergeSmallChunks over the blocks parseBlocks makes  *)
(* of a document. The text of a block is the sequence of its tokens (the    *)
(* pieces text.split(/\s+/) yields), a token being named by the block it    *)
(* is from and its place in it, so that text carried from one chunk into    *)
(* the next can be told from text of the next block. block.tokens is the    *)
(* number of tokens of the text, as approximateTokens counts them.          *)

MaxBlocks == 3

MaxBlockTokens == 3

(* an element of headingStack that was never assigned *)
Hole == "<empty item>"

NoteTitles == {"T", "A"}

HeadingTitles == {"", "A", "B"}

(* the categories of resolveChunkType, in the order of the keys of counts *)
ChunkTypes == <<"text", "code", "table", "callout", "list", "quote">>

(* block types whose strongBoundary is a switch of the configuration *)
Switchable == {"list", "code", "table", "callout", "hr"}

(* parseBlocks: block number i of the document *)
Block(i, type, n, config) ==
  [type |-> type, depth |-> 0, title |-> "",
   text |-> [k \in 1..n |-> <<i, k>>], tokens |-> n,
   strongBoundary |-> type \in config.strong_boundaries]

(* parseBlocks, lines 231-241: a heading block *)
HeadingBlock(depth, title) ==
  [type |-> "heading", depth |-> depth, title |-> title,
   text |-> <<>>, tokens |-> 0, strongBoundary |-> TRUE]

(* the stack is not cut back: items deeper than the heading stay *)
updateHeadingStack_NoSplice(stack, block) ==
  IF block.depth = 0 THEN stack
  ELSE [i \in 1..(IF Len(stack) > block.depth THEN Len(stack) ELSE block.depth) |->
          IF i = block.depth THEN block.title
          ELSE IF i <= Len(stack) THEN stack[i] ELSE Hole]

(* updateHeadingStack: stack.splice(targetDepth - 1), then the assignment   *)
(* to stack[targetDepth - 1], which leaves empty items below it when the     *)
(* stack was shorter                                                        *)
updateHeadingStack(stack, block) ==
  IF block.depth = 0 THEN stack
  ELSE [i \in 1..block.depth |->
          IF i = block.depth THEN block.title
          ELSE IF i <= Len(stack) THEN stack[i] ELSE Hole]

RECURSIVE HeadingPathFrom(_, _)
HeadingPathFrom(path, headings) ==
  IF headings = <<>> THEN path
  ELSE IF Head(headings) \in {"", Hole} THEN HeadingPathFrom(path, Tail(headings))
  ELSE IF path[Len(path)] = Head(headings) THEN HeadingPathFrom(path, Tail(headings))
  ELSE HeadingPathFrom(Append(path, Head(headings)), Tail(headings))

buildHeadingPath(noteTitle, headings) == HeadingPathFrom(<<noteTitle>>, headings)

(* resolveChunkType, lines 382-401: counts[category] *)
CountOf(blocks, category) ==
  LET Category(b) == IF b.type \in {"code", "table", "callout", "list", "quote"}
                     THEN b.type ELSE "text"
      RECURSIVE Sum(_)
      Sum(bs) == IF bs = <<>> THEN 0
                 ELSE (IF Category(Head(bs)) = category THEN Head(bs).tokens ELSE 0)
                      + Sum(Tail(bs))
  IN Sum(blocks)

(* resolveChunkType, lines 402-403: the first entry of the entries sorted   *)
(* by count, largest first; the sort keeps the order of equal counts        *)
resolveChunkType(blocks) ==
  LET first == CHOOSE i \in DOMAIN ChunkTypes :
                 /\ \A j \in DOMAIN ChunkTypes :
                      CountOf(blocks, ChunkTypes[j]) <= CountOf(blocks, ChunkTypes[i])
                 /\ \A j \in 1..(i - 1) :
                      CountOf(blocks, ChunkTypes[j]) < CountOf(blocks, ChunkTypes[i])
  IN ChunkTypes[first]

RECURSIVE TextOf(_)
(* chunkBlocks.map(block => block.text).join("\n\n"), as tokens *)
TextOf(blocks) == IF blocks = <<>> THEN <<>> ELSE Head(blocks).text \o TextOf(Tail(blocks))

(* makeOverlapBlock: no block (the empty sequence) or the block of the last *)
(* overlapTokens tokens of the text                                         *)
makeOverlapBlock(text, overlapTokens, blocks) ==
  IF overlapTokens <= 0 THEN <<>>
  ELSE IF blocks = <<>> \/ blocks[Len(blocks)].strongBoundary THEN <<>>
  ELSE IF Len(text) <= overlapTokens THEN <<>>
  ELSE << [type |-> "paragraph", depth |-> 0, title |-> "",
           text |-> SubSeq(text, Len(text) - overlapTokens + 1, Len(text)),
           tokens |-> overlapTokens, strongBoundary |-> FALSE] >>

(* the state of the loop of buildChunkDrafts before its first block *)
NoDrafts ==
  [drafts |-> <<>>, headingStack |-> <<>>, chunkBlocks |-> <<>>, chunkTokens |-> 0,
   overlapBuffer |-> <<>>]

(* flushChunk(reason) *)
flushChunk(st, reason, noteTitle, config) ==
  IF st.chunkBlocks = <<>> THEN st
  ELSE IF TextOf(st.chunkBlocks) = <<>>
  THEN [st EXCEPT !.chunkBlocks = <<>>, !.chunkTokens = 0, !.overlapBuffer = <<>>]
  ELSE LET text == TextOf(st.chunkBlocks)
           draft == [text |-> text,
                     headingPath |-> buildHeadingPath(noteTitle, st.headingStack),
                     tokens |-> st.chunkTokens,
                     chunkType |-> resolveChunkType(st.chunkBlocks),
                     mergeable |-> reason = "size"]
           overlap == IF reason = "size"
                      THEN makeOverlapBlock(text, config.overlap_tokens, st.chunkBlocks)
                      ELSE <<>>
       IN [st EXCEPT !.drafts = Append(@, draft),
                     !.overlapBuffer = overlap,
                     !.chunkBlocks = overlap,
                     !.chunkTokens = IF overlap = <<>> THEN 0 ELSE overlap[1].tokens]

(* the chunk is closed for its size at the hard maximum alone *)
DraftStep_MaximumOnly(st, block, noteTitle, config) ==
  IF block.type = "heading"
  THEN [flushChunk(st, "heading", noteTitle, config) EXCEPT
          !.headingStack = updateHeadingStack(@, block)]
  ELSE LET closed == IF block.strongBoundary /\ st.chunkBlocks # <<>>
                     THEN flushChunk(st, "boundary", noteTitle, config) ELSE st
           inherits == closed.chunkBlocks = <<>> /\ closed.overlapBuffer # <<>>
           started == IF inherits
                      THEN [closed EXCEPT !.chunkBlocks = closed.overlapBuffer,
                                          !.chunkTokens = @ + closed.overlapBuffer[1].tokens,
                                          !.overlapBuffer = <<>>]
                      ELSE closed
           pushed == [started EXCEPT !.chunkBlocks = Append(@, block),
                                     !.chunkTokens = @ + block.tokens]
       IN IF block.strongBoundary THEN flushChunk(pushed, "boundary", noteTitle, config)
          ELSE IF pushed.chunkTokens >= config.max_tokens
               THEN flushChunk(pushed, "size", noteTitle, config)
               ELSE pushed

(* buildChunkDrafts, lines 138-168: the body of the loop for one block *)
DraftStep(st, block, noteTitle, config) ==
  IF block.type = "heading"
  THEN [flushChunk(st, "heading", noteTitle, config) EXCEPT
          !.headingStack = updateHeadingStack(@, block)]
  ELSE LET closed == IF block.strongBoundary /\ st.chunkBlocks # <<>>
                     THEN flushChunk(st, "boundary", noteTitle, config) ELSE st
           inherits == closed.chunkBlocks = <<>> /\ closed.overlapBuffer # <<>>
           started == IF inherits
                      THEN [closed EXCEPT !.chunkBlocks = closed.overlapBuffer,
                                          !.chunkTokens = @ + closed.overlapBuffer[1].tokens,
                                          !.overlapBuffer = <<>>]
                      ELSE closed
           pushed == [started EXCEPT !.chunkBlocks = Append(@, block),
                                     !.chunkTokens = @ + block.tokens]
       IN IF block.strongBoundary THEN flushChunk(pushed, "boundary", noteTitle, config)
          ELSE IF \/ pushed.chunkTokens >= config.target_tokens
                  \/ pushed.chunkTokens >= config.max_tokens
               THEN flushChunk(pushed, "size", noteTitle, config)
               ELSE pushed

RECURSIVE DraftLoop(_, _, _, _)
DraftLoop(st, blocks, noteTitle, config) ==
  IF blocks = <<>> THEN st
  ELSE DraftLoop(DraftStep(st, Head(blocks), noteTitle, config), Tail(blocks),
                 noteTitle, config)

buildChunkDrafts(blocks, config, noteTitle) ==
  flushChunk(DraftLoop(NoDrafts, blocks, noteTitle, config), "end", noteTitle, config).drafts

RECURSIVE MergeLoop(_, _, _)
MergeLoop(merged, drafts, minTokens) ==
  IF drafts = <<>> THEN merged
  ELSE LET draft == Head(drafts)
           previous == merged[Len(merged)]
       IN IF /\ draft.tokens < minTokens
             /\ merged # <<>>
             /\ previous.mergeable
             /\ draft.mergeable
             /\ previous.headingPath = draft.headingPath
          THEN MergeLoop([merged EXCEPT ![Len(merged)] =
                            [previous EXCEPT !.text = previous.text \o draft.text,
                                             !.tokens = Len(previous.text \o draft.text)]],
                         Tail(drafts), minTokens)
          ELSE MergeLoop(Append(merged, draft), Tail(drafts), minTokens)

mergeSmallChunks(drafts, minTokens) ==
  IF Len(drafts) <= 1 THEN drafts ELSE MergeLoop(<<>>, drafts, minTokens)

(* chunkMarkdown, line 56 *)
BuildChunkDrafts ==
  /\ rpc = "ready"
  /\ rout' = [drafts |-> buildChunkDrafts(rin.blocks, rin.config, rin.noteTitle),
              merged |-> <<>>]
  /\ rpc' = "drafted"
  /\ UNCHANGED <<rin, indexerVars, storeVars>>

(* chunkMarkdown, lines 57-59 *)
MergeSmallChunks ==
  /\ rpc = "drafted"
  /\ rout' = [rout EXCEPT !.merged =
                IF rin.config.merge_small_chunks
                THEN mergeSmallChunks(rout.drafts, rin.config.min_tokens)
                ELSE rout.drafts]
  /\ rpc' = "chunked"
  /\ UNCHANGED <<rin, indexerVars, storeVars>>

ChunkerNext == BuildChunkDrafts \/ MergeSmallChunks

(* ------------------------------ chunk type ------------------------------ *)

MaxTypeTokens == 2

(* chunking configuration of config.test.ts and chunking.test.ts, with the  *)
(* switches of strong_boundaries left open                                  *)
TestTargetTokens == 50

TestMaxTokens == 80

TestMinTokens == 10

TypedBlocks ==
  UNION {[1..k -> {"paragraph", "code", "table", "quote"} \X (1..MaxTypeTokens)]
           : k \in 1..MaxBlocks}

BlocksOf(shape, config) ==
  [i \in DOMAIN shape |-> Block(i, shape[i][1], shape[i][2], config)]

InitChunkType ==
  /\ IndexInit
  /\ rin \in UNION {
       {[blocks |-> BlocksOf(shape, config), config |-> config, noteTitle |-> "T"]
          : shape \in TypedBlocks}
       : config \in [target_tokens : {TestTargetTokens}, max_tokens : {TestMaxTokens},
                     min_tokens : {TestMinTokens}, overlap_tokens : {0},
                     merge_small_chunks : {TRUE},
                     strong_boundaries : SUBSET {"code", "table"}]}
  /\ rout = <<>>
  /\ rpc = "ready"

SpecChunkType == InitChunkType /\ [][ChunkerNext]_vars

(* the category resolveChunkType counts a block type under *)
CategoryOf(type) ==
  IF type \in {"code", "table", "callout", "list", "quote"} THEN type ELSE "text"

(* tokens of a chunk text that are from blocks of the category *)
TokensOfCategory(text, category) ==
  Cardinality({k \in DOMAIN text : CategoryOf(rin.blocks[text[k][1]].type) = category})

Categories == {ChunkTypes[i] : i \in DOMAIN ChunkTypes}

Largest(text) ==
  {c \in Categories : \A o \in Categories : TokensOfCategory(text, o) <= TokensOfCategory(text, c)}

(* C21: the chunkType of every chunk is the category with the largest token *)
(* count among its blocks, and text when several categories have the        *)
(* largest count.                                                           *)
C21_ChunkTypeIsTheLargestCategory ==
  rpc = "chunked" =>
    \A i \in DOMAIN rout.merged :
      LET top == Largest(rout.merged[i].text)
      IN rout.merged[i].chunkType =
           IF Cardinality(top) = 1 THEN CHOOSE c \in top : TRUE ELSE "text"

(* ----------------------------- heading path ----------------------------- *)

MaxDepth == 3

(* a document of headings, a paragraph of one token before the first and    *)
(* after each of them                                                       *)
HeadedBlocks(headings, config) ==
  [i \in 1..(2 * Len(headings) + 1) |->
     IF i % 2 = 1 THEN Block(i, "paragraph", 1, config)
     ELSE HeadingBlock(headings[i \div 2][1], headings[i \div 2][2])]

TestConfig ==
  [target_tokens |-> TestTargetTokens, max_tokens |-> TestMaxTokens,
   min_tokens |-> TestMinTokens, overlap_tokens |-> 0, merge_small_chunks |-> TRUE,
   strong_boundaries |-> Switchable]

InitHeadings ==
  /\ IndexInit
  /\ rin \in {[blocks |-> HeadedBlocks(headings, TestConfig), config |-> TestConfig,
               noteTitle |-> noteTitle]
                : headings \in SeqsUpTo((1..MaxDepth) \X HeadingTitles, MaxBlocks),
                  noteTitle \in NoteTitles}
  /\ rout = <<>>
  /\ rpc = "ready"

SpecHeadings == InitHeadings /\ [][ChunkerNext]_vars

RECURSIVE StackBefore(_)
(* the heading stack as the claim describes it, before block i of the       *)
(* document: the set of <<position, title>> it holds. A heading of depth d  *)
(* removes what is at position d or deeper and puts its title at d.         *)
StackBefore(i) ==
  IF i = 1 THEN {}
  ELSE LET b == rin.blocks[i - 1]
       IN IF b.type = "heading"
          THEN {e \in StackBefore(i - 1) : e[1] < b.depth} \cup {<<b.depth, b.title>>}
          ELSE StackBefore(i - 1)

RECURSIVE ListedOnce(_, _, _)
(* the note title, then the titles of the stack from position d on,         *)
(* outermost first; a title equal to the element before it is listed once   *)
(* and a heading without text lists nothing                                 *)
ListedOnce(path, stack, d) ==
  IF d > MaxDepth THEN path
  ELSE IF \E e \in stack : e[1] = d /\ e[2] # "" /\ e[2] # path[Len(path)]
       THEN ListedOnce(Append(path, (CHOOSE e \in stack : e[1] = d)[2]), stack, d + 1)
       ELSE ListedOnce(path, stack, d + 1)

(* C22: the headingPath of every chunk is the note title followed by the    *)
(* titles the stack holds where the chunk's blocks stand, the stack being   *)
(* cut back to d - 1 items and given the title at d by every heading of     *)
(* depth d.                                                                 *)
C22_HeadingPathFollowsTheStack ==
  rpc = "chunked" =>
    \A c \in DOMAIN rout.merged : \A k \in DOMAIN rout.merged[c].text :
      rout.merged[c].headingPath =
        ListedOnce(<<rin.noteTitle>>, StackBefore(rout.merged[c].text[k][1]), 1)

(* a heading of depth 3 with no heading of depth 2 above it, a chunk under  *)
(* it, and a later heading of depth 1 that cuts the stack back              *)
C22_Witness ==
  /\ rpc = "chunked"
  /\ Len(rin.blocks) = 7
  /\ rin.blocks[2].depth = 3 /\ rin.blocks[2].title = "A"
  /\ rin.blocks[4].depth = 2 /\ rin.blocks[4].title = "B"
  /\ rin.blocks[6].depth = 1 /\ rin.blocks[6].title = "B"
  /\ rin.noteTitle = "T"
  /\ rout.merged[2].headingPath = <<"T", "A">>
  /\ rout.merged[3].headingPath = <<"T", "B">>
  /\ rout.merged[4].headingPath = <<"T", "B">>

(* ---------------------------- sizes and overlap ------------------------- *)

(* paragraphs of 1..MaxBlockTokens tokens, tables of 1 or 2 tokens and      *)
(* headings of depth 1                                                      *)
SizedShapes ==
  SeqsUpTo(({"paragraph"} \X (1..MaxBlockTokens)) \cup ({"table"} \X {1, 2})
             \cup {<<"heading", 0>>}, MaxBlocks)

SizedBlocks(shape, config) ==
  [i \in DOMAIN shape |->
     IF shape[i][1] = "heading" THEN HeadingBlock(1, "A")
     ELSE Block(i, shape[i][1], shape[i][2], config)]

(* small configurations: a target of 2 or 3 tokens, a hard maximum of 3 or  *)
(* 4, an overlap of 0 or 1 token and a minimum of 0, 2 or 3                 *)
SizedConfigs ==
  [target_tokens : {2, 3}, max_tokens : {3, 4}, min_tokens : {0, 2, 3},
   overlap_tokens : {0, 1}, merge_small_chunks : BOOLEAN,
   strong_boundaries : {Switchable}]

InitSizes ==
  /\ IndexInit
  /\ rin \in {[blocks |-> SizedBlocks(shape, config), config |-> config, noteTitle |-> "T"]
                : shape \in SizedShapes, config \in SizedConfigs}
  /\ rout = <<>>
  /\ rpc = "ready"

SpecSizes == InitSizes /\ [][ChunkerNext]_vars

(* the last block of the document that has text in the chunk *)
LastBlockOf(text) == Max({text[k][1] : k \in DOMAIN text})

(* the chunk was closed by a heading or by a strong-boundary block: its     *)
(* last block is one, or the block after it is a heading or one             *)
ClosedByStructure(text) ==
  LET last == LastBlockOf(text)
  IN \/ rin.blocks[last].strongBoundary
     \/ /\ last < Len(rin.blocks)
        /\ rin.blocks[last + 1].type = "heading" \/ rin.blocks[last + 1].strongBoundary

(* C23: in the draft pass, the chunk after one closed for its size starts   *)
(* with the last overlap_tokens tokens of that chunk, followed by the next  *)
(* block of the document; the chunk after one closed by a heading or a      *)
(* strong boundary, or any chunk when overlap_tokens is 0, holds no token   *)
(* of the chunk before it.                                                  *)
C23_OverlapIsCarriedAfterASizeClose ==
  rpc = "drafted" =>
    \A i \in 1..(Len(rout.drafts) - 1) :
      LET closed == rout.drafts[i].text
          next == rout.drafts[i + 1].text
          n == rin.config.overlap_tokens
      IN IF rout.drafts[i].mergeable /\ n > 0
         THEN /\ LastBlockOf(closed) < Len(rin.blocks)
              /\ LET block == rin.blocks[LastBlockOf(closed) + 1].text
                     start == SubSeq(closed, Len(closed) - n + 1, Len(closed)) \o block
                 IN /\ Len(closed) >= n
                    /\ Len(next) >= Len(start)
                    /\ SubSeq(next, 1, Len(start)) = start
         ELSE \A k \in DOMAIN next : \A m \in DOMAIN closed : next[k] # closed[m]

(* C24: with merge_small_chunks on, no chunk is left that has fewer than    *)
(* min_tokens tokens, the headingPath of the chunk before it, and was not   *)
(* closed by a heading or strong boundary.                                  *)
C24_SmallChunksAreMerged ==
  (rpc = "chunked" /\ rin.config.merge_small_chunks) =>
    \A i \in 2..Len(rout.merged) :
      ~ /\ rout.merged[i].tokens < rin.config.min_tokens
        /\ rout.merged[i].headingPath = rout.merged[i - 1].headingPath
        /\ ~ClosedByStructure(rout.merged[i].text)

C29_NoChunkOfOverlapAlone ==
  rpc = "drafted" =>
    \A i \in DOMAIN rout.drafts :
      \E k \in DOMAIN rout.drafts[i].text :
        \A j \in 1..(i - 1) : \A m \in DOMAIN rout.drafts[j].text :
          rout.drafts[j].text[m] # rout.drafts[i].text[k]

(* ------------------------------- embedder ------------------------------- *)
(* OllamaEmbedder.embed and embedWithRetries. rin is the call: the number   *)
(* of payloads and embedding_batch_size. rout is the state of the call:     *)
(* index and attempt are the loop variables, waited the delay of the last   *)
(* timer, log the requests made so far, each with the payloads it covers,   *)
(* the attempt it is, the delay waited before it and how it ended.          *)

MaxPayloads == 4

MaxBatchSize == 2

maxAttempts == 3

Pow2(n) == IF n = 1 THEN 2 ELSE IF n = 2 THEN 4 ELSE 8

(* every wait is the same *)
BackoffDelay_Constant(attempt) == 200

(* embedWithRetries: the delay of setTimeout, in milliseconds *)
BackoffDelay(attempt) == Pow2(attempt) * 100

InitEmbed ==
  /\ IndexInit
  /\ rin \in [payloads : 0..MaxPayloads, batchSize : 1..MaxBatchSize]
  /\ rout = [index |-> 0, attempt |-> 1, waited |-> 0, log |-> <<>>]
  /\ rpc = "loop"

(* embed: the loop is over, return results *)
EmbedDone ==
  /\ rpc = "loop"
  /\ ~(rout.index < rin.payloads)
  /\ rpc' = "returned"
  /\ UNCHANGED <<rin, rout, indexerVars, storeVars>>

(* embed: payloads.slice(index, index + batchSize) goes to embedWithRetries, *)
(* which calls ollamaEmbed: the request is sent                              *)
SendRequest ==
  /\ rpc = "loop"
  /\ rout.index < rin.payloads
  /\ LET last == IF rout.index + rin.batchSize < rin.payloads
                 THEN rout.index + rin.batchSize ELSE rin.payloads
     IN rout' = [rout EXCEPT !.log = Append(@, [from |-> rout.index, size |-> last - rout.index,
                                                attempt |-> rout.attempt,
                                                waited |-> rout.waited,
                                                result |-> "pending"])]
  /\ rpc' = "await"
  /\ UNCHANGED <<rin, indexerVars, storeVars>>

(* ollamaEmbed resolves: the vectors are pushed and the loop goes on *)
RequestSucceeds ==
  /\ rpc = "await"
  /\ rout' = [rout EXCEPT !.log[Len(rout.log)].result = "ok",
                          !.index = @ + rin.batchSize,
                          !.attempt = 1,
                          !.waited = 0]
  /\ rpc' = "loop"
  /\ UNCHANGED <<rin, indexerVars, storeVars>>

(* ollamaEmbed rejects before the last attempt: the backoff timer runs *)
RequestFails ==
  /\ rpc = "await"
  /\ rout.attempt # maxAttempts
  /\ rout' = [rout EXCEPT !.log[Len(rout.log)].result = "failed",
                          !.waited = BackoffDelay(rout.attempt),
                          !.attempt = @ + 1]
  /\ rpc' = "loop"
  /\ UNCHANGED <<rin, indexerVars, storeVars>>

(* ollamaEmbed rejects at the last attempt: the error leaves embed *)
RequestFailsForGood ==
  /\ rpc = "await"
  /\ rout.attempt = maxAttempts
  /\ rout' = [rout EXCEPT !.log[Len(rout.log)].result = "failed"]
  /\ rpc' = "threw"
  /\ UNCHANGED <<rin, indexerVars, storeVars>>

EmbedNext ==
  \/ SendRequest \/ RequestSucceeds \/ RequestFails \/ RequestFailsForGood \/ EmbedDone

SpecEmbed == InitEmbed /\ [][EmbedNext]_vars

(* C26: every request carries at least one and at most embedding_batch_size *)
(* payloads; at most one request is outstanding, the last one made; a batch *)
(* is tried at most 3 times, the wait before a retry being 200 ms and then  *)
(* twice the wait before; after a success the next request is the first     *)
(* attempt of the next batch; after the third failure nothing is sent and   *)
(* the call has thrown; a call that returns has had every payload accepted. *)
C26_BatchesOneByOneWithBoundedRetries ==
  LET log == rout.log
  IN /\ \A i \in DOMAIN log :
          /\ log[i].size >= 1 /\ log[i].size <= rin.batchSize
          /\ log[i].attempt \in 1..3
          /\ log[i].result = "pending" => i = Len(log) /\ rpc = "await"
          /\ (log[i].result = "failed" /\ log[i].attempt = 3) => i = Len(log) /\ rpc = "threw"
     /\ \A i \in 2..Len(log) :
          IF log[i - 1].result = "ok"
          THEN /\ log[i].from = log[i - 1].from + log[i - 1].size
               /\ log[i].attempt = 1
          ELSE /\ log[i - 1].result = "failed"
               /\ log[i].from = log[i - 1].from /\ log[i].size = log[i - 1].size
               /\ log[i].attempt = log[i - 1].attempt + 1
               /\ log[i].waited = IF log[i - 1].attempt = 1 THEN 200 ELSE 2 * log[i - 1].waited
     /\ (log # <<>> => log[1].from = 0 /\ log[1].attempt = 1)
     /\ rpc = "threw" => log # <<>> /\ log[Len(log)].result = "failed" /\ log[Len(log)].attempt = 3
     /\ rpc = "returned" =>
          IF rin.payloads = 0 THEN log = <<>>
          ELSE /\ log[Len(log)].result = "ok"
               /\ log[Len(log)].from + log[Len(log)].size = rin.payloads

(* a batch went through at its second attempt and a later batch failed      *)
(* three times                                                              *)
C26_Witness ==
  /\ rpc = "threw"
  /\ \E i \in DOMAIN rout.log : rout.log[i].result = "ok" /\ rout.log[i].attempt = 2
  /\ rout.log[Len(rout.log)].from > 0
  /\ rout.log[Len(rout.log)].waited = 400

(* --------------------------- document records --------------------------- *)

Observed(p) == vault[p].exists

RecordMatches(d, p) ==
  /\ p \in DOMAIN loadFileStates(d)
  /\ loadFileStates(d)[p].mtime = vault[p].mtime
  /\ loadFileStates(d)[p].chunkCount = Cardinality(DOMAIN loadChunksByFile(d, p))

(* C28: when run() has returned and its embedder returned an embedding for  *)
(* every chunk it was asked to embed, each document the walk observed has a *)
(* files row whose mtime is the file's mtime and whose chunkCount is the    *)
(* number of chunks stored for the path, a document without chunks          *)
(* included.                                                                *)
C28_EveryObservedDocumentHasARecord ==
  (pc = "done" /\ lastRun = "ok") => \A p \in Paths : Observed(p) => RecordMatches(db, p)

(* ---------------------------- interrupted runs -------------------------- *)
(* The corpus is written and indexed as in Spec, by an embedder that        *)
(* returns every embedding. From some run on the corpus stays as it is: rin *)
(* holds the store as that run found it and whether a run was interrupted   *)
(* since.                                                                   *)

NotFixed == [fixed |-> FALSE, interrupted |-> FALSE, db |-> EmptyDb]

InitResume ==
  /\ IndexInit
  /\ rin = NotFixed
  /\ rout = <<>>
  /\ rpc = "none"

(* run(), lines 108-117: the first run on the corpus as it now stays *)
StartRunOnFixedCorpus ==
  /\ ~Running
  /\ ~rin.fixed
  /\ rin' = [fixed |-> TRUE, interrupted |-> FALSE, db |-> db]
  /\ pc' = "walk"
  /\ fileStates' = loadFileStates(db)
  /\ seen' = {}
  /\ todo' = iterVaultMarkdown(vault)
  /\ stats' = ZeroStats
  /\ removed' = <<>>
  /\ chunkCount' = 0
  /\ embedCalls' = 0
  /\ runFault' = FALSE
  /\ prev' = lastRun
  /\ lastRun' = "none"
  /\ ClearFile
  /\ UNCHANGED <<rout, rpc, vault, storeVars>>

(* the process is killed between two store operations of a run on the       *)
(* fixed corpus                                                             *)
Interrupt ==
  /\ Running
  /\ rin.fixed
  /\ rin' = [rin EXCEPT !.interrupted = TRUE]
  /\ pc' = "idle"
  /\ fileStates' = <<>>
  /\ seen' = {}
  /\ todo' = <<>>
  /\ stats' = ZeroStats
  /\ removed' = <<>>
  /\ chunkCount' = 0
  /\ embedCalls' = 0
  /\ runFault' = FALSE
  /\ lastRun' = "none"
  /\ prev' = "none"
  /\ ClearFile
  /\ UNCHANGED <<rout, rpc, vault, storeVars>>

ResumeNext ==
  \/ (WriteFile /\ ~rin.fixed)
  \/ (RemoveFile /\ ~rin.fixed)
  \/ StartRun
  \/ StartRunOnFixedCorpus
  \/ WalkSkip
  \/ WalkChanged
  \/ (EmbedReturns /\ ~runFault')
  \/ DeleteStale
  \/ Upsert
  \/ WalkEnd
  \/ RemoveChunks
  \/ RemoveFileRow
  \/ Finish
  \/ (Crash /\ ~rin.fixed)
  \/ Interrupt

SpecResume == InitResume /\ [][ResumeNext]_vars

(* persistFile for one file, from its first line to its last *)
PersistWhole(d, file, doc) ==
  LET cs == chunkMarkdown(file, doc)
      ex == loadChunksByFile(d, file)
      te == Queued(ex, cs)
      embedded == [i \in DOMAIN te |-> WithEmbedding(te[i], "v1")]
  IN upsertChunks(deleteChunksByIds(d, StaleChunkIds(ex, cs)), Reused(ex, cs) \o embedded)

RECURSIVE WalkWhole(_, _, _, _)
(* run(), lines 118-145: the loop over the files of the walk *)
WalkWhole(d, states, files, v) ==
  IF files = <<>> THEN d
  ELSE IF Unchanged(states, Head(files), v[Head(files)].mtime)
       THEN WalkWhole(d, states, Tail(files), v)
       ELSE WalkWhole(PersistWhole(d, Head(files), v[Head(files)]), states, Tail(files), v)

RECURSIVE RemoveWhole(_, _)
(* run(), lines 149-155: the loop over removedPaths *)
RemoveWhole(d, paths) ==
  IF paths = <<>> THEN d
  ELSE RemoveWhole(DeleteFileRow(deleteChunksByIds(d, ChunkIdsOfFile(d, Head(paths))),
                                 Head(paths)),
                   Tail(paths))

(* run() from its first line to its last, never interrupted *)
RunWhole(d, v) ==
  LET walked == WalkWhole(d, loadFileStates(d), iterVaultMarkdown(v), v)
  IN RemoveWhole(walked, RemovedPaths(walked, SeqToSet(iterVaultMarkdown(v))))

(* the documents of a store, with their chunk ids and content hashes *)
DocumentsOf(d) ==
  [files |-> d.files,
   chunks |-> [id \in DOMAIN d.chunks |->
                 [filePath |-> d.chunks[id].filePath,
                  contentHash |-> d.chunks[id].contentHash,
                  mtime |-> d.chunks[id].mtime]]]

(* C27: when a run on the fixed corpus has returned, after runs on it were  *)
(* interrupted or not, the store holds the document records, chunk ids,     *)
(* paths, content hashes and mtimes that one uninterrupted run leaves when  *)
(* it starts from the store the first of these runs found.                  *)
C27_InterruptedRunsEndAsUninterrupted ==
  (rin.fixed /\ pc = "done") => DocumentsOf(db) = DocumentsOf(RunWhole(rin.db, vault))

(* a run on the fixed corpus was interrupted and a later run has returned,  *)
(* having processed a file; a stale chunk of a rewritten file is gone and   *)
(* a chunk the file keeps has its new content hash                          *)
C27_Witness ==
  /\ rin.fixed /\ rin.interrupted /\ pc = "done"
  /\ \E id \in DOMAIN rin.db.chunks :
       /\ id \notin DOMAIN db.chunks
       /\ vault[id[1]].exists
       /\ \E other \in DOMAIN db.chunks :
            /\ other[1] = id[1]
            /\ other \in DOMAIN rin.db.chunks
            /\ rin.db.chunks[other].contentHash # db.chunks[other].contentHash
  /\ stats.processed > 0

(* --------------------------- the result count --------------------------- *)
(* retrieve() without a re-ranker, for the values of rerank_top_n and       *)
(* diversification_pool around the number of candidates.                    *)

TopNs == 1..(RerankTopN + 1)

Pools == 0..DiversificationPool

InitPool ==
  /\ IndexInit
  /\ rin \in {[in EXCEPT !.rerank_top_n = n, !.diversification_pool = p] :
                in \in {i \in RetrieveInputs :
                          /\ i.filters = NoFilters
                          /\ SeqToSet(i.matches) \subseteq
                               {i.chunks[k].chunkId : k \in DOMAIN i.chunks}},
                n \in TopNs, p \in Pools}
  /\ rout = <<>>
  /\ rpc = "ready"

SpecPool == InitPool /\ [][Retrieve]_vars

(* the candidates that survive the per-document cap *)
Survivors(in) ==
  dedupeFused(fuseCandidates(
    scoreVectorCandidates(in.chunks, in.query, VectorTopK, in.filters),
    IF in.hybrid THEN lexicalSearch(in.chunks, in.matches, LexicalTopK, in.filters)
    ELSE <<>>,
    [vector |-> FusionVectorTenths, lexical |-> FusionLexicalTenths]))

Min(a, b) == IF a < b THEN a ELSE b

(* C30: without a re-ranker retrieve returns min(rerank_top_n, number of    *)
(* candidates that survive the per-document cap) chunks, no chunkId twice,  *)
(* with MMR enabled or not and for every diversification_pool.              *)
C30_ResultCountIsTheMinimum ==
  rpc = "done" =>
    /\ Len(rout) = Min(rin.rerank_top_n, Len(Survivors(rin)))
    /\ \A i, j \in DOMAIN rout : i # j => rout[i].chunk.chunkId # rout[j].chunk.chunkId

====
